---------------------------- MODULE Spec2Model ----------------------------
(***************************************************************************)
(* heatmap: GPX/TCX track parsers and the file dispatcher.                 *)
(*                                                                         *)
(* A document is the sequence of events quick_xml's Reader yields for it.  *)
(* The parsers are translated function by function as recursive operators  *)
(* over that sequence; every operator that reads from the reader returns   *)
(* the reader position it leaves behind.  A result is                      *)
(*   [kind |-> "Ok", ...]    the function returned Ok(...)                 *)
(*   [kind |-> "Err"]        the function returned Err(...) (bail!, ?)     *)
(*   [kind |-> "Panic"]      the function panicked (expect / unwrap)       *)
(***************************************************************************)
EXTENDS Integers, Sequences, FiniteSets, TLC

(***************************************************************************)
(* Bounds of the model.                                                    *)
(***************************************************************************)
MaxRecs == 2
\* paths in one file list (the command line, or the listing of a directory)
MaxPaths == 2
\* nested calls of get_pts_from_files: 1 is the call from main
MaxDepth == 2

(***************************************************************************)
(* Option<T>: None is the empty sequence, Some(x) the one-element one.     *)
(***************************************************************************)
None == <<>>
Some(x) == <<x>>
IsSome(o) == o # <<>>
Unwrap(o) == o[1]

(***************************************************************************)
(* Tokens.  str::parse::<f64>() and str::parse::<DateTime<Utc>>() are      *)
(* conversions from text: a token outside the table does not parse.        *)
(* Times are seconds on an integer axis.                                   *)
(***************************************************************************)
\* f64::NAN, which str::parse::<f64>() gives for "NaN": a value apart from
\* every coordinate and every length
NaN == -999999

F64Table ==
    ("NaN" :> NaN) @@ ("10" :> 10) @@ ("20" :> 20) @@ ("30" :> 30) @@ ("40" :> 40) @@
    ("-10" :> -10) @@ ("-20" :> -20) @@ ("-30" :> -30) @@ ("-40" :> -40) @@
    ("177.8" :> 177)

DateTimeTable ==
    ("T1" :> 1) @@ ("T2" :> 2) @@ ("T3" :> 3) @@
    ("T11" :> 11) @@ ("T12" :> 12) @@ ("T13" :> 13) @@ ("T14" :> 14)

ParseF64(s) ==
    IF s \in DOMAIN F64Table THEN [ok |-> TRUE, v |-> F64Table[s]]
                             ELSE [ok |-> FALSE]

ParseDateTime(s) ==
    IF s \in DOMAIN DateTimeTable THEN [ok |-> TRUE, v |-> DateTimeTable[s]]
                                  ELSE [ok |-> FALSE]

(***************************************************************************)
(* Events of quick_xml::events::Event, and the reader.                     *)
(***************************************************************************)
Decl == [k |-> "Decl"]
Start(n, a) == [k |-> "Start", name |-> n, attrs |-> a]
End(n) == [k |-> "End", name |-> n]
Empty(n, a) == [k |-> "Empty", name |-> n, attrs |-> a]
Text(s) == [k |-> "Text", text |-> s]
Eof == [k |-> "Eof"]
XmlErr == [k |-> "Err"]

\* Reader::read_event: the next event, Eof once the input is exhausted.
read_event(ev, pos) == IF pos > Len(ev) THEN Eof ELSE ev[pos]

TrkPt(lat, lng, time) == [center |-> [lat |-> lat, lng |-> lng], time |-> time]

OkPts(pts) == [kind |-> "Ok", pts |-> pts]
Err == [kind |-> "Err"]
Panic == [kind |-> "Panic"]

(***************************************************************************)
(* heatmap/gpx.rs                                                          *)
(***************************************************************************)
\* gpx.rs:14-18 with Bike and Run exchanged
gpx_filter_string_swapped(type_filter) ==
    IF type_filter = Some("Bike") THEN Some("9")
    ELSE IF type_filter = Some("Run") THEN Some("1")
    ELSE None

gpx_filter_string(type_filter) ==
    IF type_filter = Some("Bike") THEN Some("1")
    ELSE IF type_filter = Some("Run") THEN Some("9")
    ELSE None

\* the early returns on the header time: time < *start, time > *end
before_start_incl(time, start) == IsSome(start) /\ time <= Unwrap(start)

before_start(time, start) == IsSome(start) /\ time < Unwrap(start)

after_end(time, end) == IsSome(end) /\ time > Unwrap(end)

\* the two bail!s on a trkpt start: out of trk, out of trkseg
stray_trkpt_trk_only(in_trk, in_trkseg) == ~in_trk

stray_trkpt(in_trk, in_trkseg) == ~in_trk \/ ~in_trkseg

\* if let Some(trkpt) = trkpt(..)? { trk_pts.push(trkpt) }
push_pt_front(trk_pts, pt) == IF IsSome(pt) THEN <<Unwrap(pt)>> \o trk_pts ELSE trk_pts

push_pt(trk_pts, pt) == IF IsSome(pt) THEN Append(trk_pts, Unwrap(pt)) ELSE trk_pts

\* what trkpt returns at </trkpt>, with a missing coordinate defaulted to 0
\* instead of the record being dropped
trkpt_result_defaulted(lat, lng, time) ==
    Some(TrkPt(IF lat = None THEN 0 ELSE Unwrap(lat),
               IF lng = None THEN 0 ELSE Unwrap(lng), time))

\* what trkpt returns at </trkpt>: None for an incomplete record
trkpt_result(lat, lng, time) ==
    IF lat = None \/ lng = None THEN None
    ELSE Some(TrkPt(Unwrap(lat), Unwrap(lng), time))

RECURSIVE metadata_time(_, _, _, _)
metadata_time(ev, pos, in_time, time) ==
    LET e == read_event(ev, pos) IN
    CASE e.k = "Start" ->
           metadata_time(ev, pos + 1, IF e.name = "time" THEN TRUE ELSE in_time, time)
      [] e.k = "End" ->
           IF e.name = "metadata"
           THEN [kind |-> "Ok", time |-> time, pos |-> pos + 1]
           ELSE metadata_time(ev, pos + 1,
                              IF e.name = "time" THEN FALSE ELSE in_time, time)
      [] e.k = "Text" ->
           IF in_time
           THEN LET t == ParseDateTime(e.text) IN
                IF t.ok THEN metadata_time(ev, pos + 1, in_time, Some(t.v))
                        ELSE Panic
           ELSE metadata_time(ev, pos + 1, in_time, time)
      [] e.k = "Eof" -> Err
      [] e.k = "Err" -> Err
      [] OTHER -> metadata_time(ev, pos + 1, in_time, time)

\* the attribute loop of trkpt: lat and lon parsed with expect
RECURSIVE trkpt_attrs(_, _, _, _)
trkpt_attrs(attrs, i, lat, lng) ==
    IF i > Len(attrs) THEN [kind |-> "Ok", lat |-> lat, lng |-> lng]
    ELSE LET key == attrs[i][1]
             p == ParseF64(attrs[i][2])
         IN  IF key = "lat"
             THEN IF p.ok THEN trkpt_attrs(attrs, i + 1, Some(p.v), lng) ELSE Panic
             ELSE IF key = "lon"
             THEN IF p.ok THEN trkpt_attrs(attrs, i + 1, lat, Some(p.v)) ELSE Panic
             ELSE trkpt_attrs(attrs, i + 1, lat, lng)

\* the event loop of trkpt
RECURSIVE trkpt_loop(_, _, _, _, _, _)
trkpt_loop(ev, pos, in_time, lat, lng, time) ==
    LET e == read_event(ev, pos) IN
    CASE e.k = "Start" ->
           trkpt_loop(ev, pos + 1, IF e.name = "time" THEN TRUE ELSE in_time,
                      lat, lng, time)
      [] e.k = "End" ->
           IF e.name = "time" THEN trkpt_loop(ev, pos + 1, FALSE, lat, lng, time)
           ELSE IF e.name = "trkpt"
           THEN [kind |-> "Ok", pt |-> trkpt_result(lat, lng, time), pos |-> pos + 1]
           ELSE trkpt_loop(ev, pos + 1, in_time, lat, lng, time)
      [] e.k = "Text" ->
           IF in_time
           THEN LET t == ParseDateTime(e.text) IN
                IF t.ok THEN trkpt_loop(ev, pos + 1, in_time, lat, lng, Some(t.v))
                        ELSE Panic
           ELSE trkpt_loop(ev, pos + 1, in_time, lat, lng, time)
      [] e.k = "Eof" -> Err
      [] e.k = "Err" -> Err
      [] OTHER -> trkpt_loop(ev, pos + 1, in_time, lat, lng, time)

trkpt(ev, pos, event) ==
    LET after(a) == IF a.kind = "Panic" THEN Panic
                    ELSE trkpt_loop(ev, pos, FALSE, a.lat, a.lng, None)
    IN  after(trkpt_attrs(event.attrs, 1, None, None))

RECURSIVE type_check(_, _, _)
type_check(ev, pos, filter_string) ==
    LET e == read_event(ev, pos) IN
    CASE e.k = "Text" -> [kind |-> "Ok", val |-> (e.text = filter_string), pos |-> pos + 1]
      [] e.k = "Eof" -> Err
      [] e.k = "Err" -> Err
      [] OTHER -> type_check(ev, pos + 1, filter_string)

\* the event loop of gpx::get_pts
RECURSIVE gpx_loop(_, _, _, _, _, _, _, _)
gpx_loop(ev, pos, filter_string, start, end, in_trk, in_trkseg, trk_pts) ==
    LET e == read_event(ev, pos) IN
    CASE e.k = "Start" /\ e.name = "metadata" ->
           IF IsSome(start) \/ IsSome(end)
           THEN LET after(m) ==
                      IF m.kind # "Ok" THEN m
                      ELSE IF IsSome(m.time) /\ before_start(Unwrap(m.time), start)
                      THEN OkPts(<<>>)
                      ELSE IF IsSome(m.time) /\ after_end(Unwrap(m.time), end)
                      THEN OkPts(<<>>)
                      ELSE gpx_loop(ev, m.pos, filter_string, start, end,
                                    in_trk, in_trkseg, trk_pts)
                IN  after(metadata_time(ev, pos + 1, FALSE, None))
           ELSE gpx_loop(ev, pos + 1, filter_string, start, end,
                         in_trk, in_trkseg, trk_pts)
      [] e.k = "Start" /\ e.name = "trk" ->
           gpx_loop(ev, pos + 1, filter_string, start, end, TRUE, in_trkseg, trk_pts)
      [] e.k = "Start" /\ e.name = "trkseg" ->
           gpx_loop(ev, pos + 1, filter_string, start, end, in_trk, TRUE, trk_pts)
      [] e.k = "Start" /\ e.name = "type" ->
           IF in_trk /\ IsSome(filter_string)
           THEN LET after(c) ==
                      IF c.kind # "Ok" THEN c
                      ELSE IF ~c.val THEN OkPts(<<>>)
                      ELSE gpx_loop(ev, c.pos, filter_string, start, end,
                                    in_trk, in_trkseg, trk_pts)
                IN  after(type_check(ev, pos + 1, Unwrap(filter_string)))
           ELSE gpx_loop(ev, pos + 1, filter_string, start, end,
                         in_trk, in_trkseg, trk_pts)
      [] e.k = "Start" /\ e.name = "trkpt" ->
           IF stray_trkpt(in_trk, in_trkseg) THEN Err
           ELSE LET after(r) ==
                      IF r.kind # "Ok" THEN r
                      ELSE gpx_loop(ev, r.pos, filter_string, start, end,
                                    in_trk, in_trkseg, push_pt(trk_pts, r.pt))
                IN  after(trkpt(ev, pos + 1, e))
      [] e.k = "End" /\ e.name = "trk" ->
           gpx_loop(ev, pos + 1, filter_string, start, end, FALSE, in_trkseg, trk_pts)
      [] e.k = "End" /\ e.name = "trkseg" ->
           gpx_loop(ev, pos + 1, filter_string, start, end, in_trk, FALSE, trk_pts)
      [] e.k = "Eof" -> OkPts(trk_pts)
      [] e.k = "Err" -> Err
      [] OTHER -> gpx_loop(ev, pos + 1, filter_string, start, end,
                           in_trk, in_trkseg, trk_pts)

gpx_get_pts(ev, pos, type_filter, start, end) ==
    gpx_loop(ev, pos, gpx_filter_string(type_filter), start, end, FALSE, FALSE, <<>>)

(***************************************************************************)
(* heatmap/tcx.rs.  Nothing here panics: every failure is an Err carrying  *)
(* the reader position, because parse_track and parse_trackpoint go on     *)
(* reading after an Err of the function they called.                       *)
(***************************************************************************)
ErrAt(p) == [kind |-> "Err", pos |-> p]

tcx_filter_name(f) ==
    IF f = "Bike" THEN "Biking" ELSE IF f = "Run" THEN "Running" ELSE "Other"

tcx_filter_strings(type_filters) ==
    IF type_filters = None THEN None
    ELSE Some({tcx_filter_name(Unwrap(type_filters)[i]) :
                   i \in 1..Len(Unwrap(type_filters))})

RECURSIVE parse_degrees(_, _)
parse_degrees(ev, pos) ==
    LET e == read_event(ev, pos) IN
    CASE e.k = "Text" ->
           LET p == ParseF64(e.text) IN
           IF p.ok THEN [kind |-> "Ok", val |-> p.v, pos |-> pos + 1]
                   ELSE ErrAt(pos + 1)
      [] e.k = "Eof" -> ErrAt(pos)
      [] e.k = "Err" -> ErrAt(pos + 1)
      [] OTHER -> parse_degrees(ev, pos + 1)

RECURSIVE parse_time(_, _)
parse_time(ev, pos) ==
    LET e == read_event(ev, pos) IN
    CASE e.k = "Text" ->
           LET t == ParseDateTime(e.text) IN
           IF t.ok THEN [kind |-> "Ok", val |-> t.v, pos |-> pos + 1]
                   ELSE ErrAt(pos + 1)
      [] e.k = "End" ->
           IF e.name = "time" THEN ErrAt(pos + 1) ELSE parse_time(ev, pos + 1)
      [] e.k = "Eof" -> ErrAt(pos)
      [] e.k = "Err" -> ErrAt(pos + 1)
      [] OTHER -> parse_time(ev, pos + 1)

RECURSIVE parse_position(_, _, _, _)
parse_position(ev, pos, lat, lng) ==
    LET e == read_event(ev, pos) IN
    CASE e.k = "Start" /\ e.name = "LatitudeDegrees" ->
           LET after(d) == IF d.kind # "Ok" THEN d
                           ELSE parse_position(ev, d.pos, Some(d.val), lng)
           IN  after(parse_degrees(ev, pos + 1))
      [] e.k = "Start" /\ e.name = "LongitudeDegrees" ->
           LET after(d) == IF d.kind # "Ok" THEN d
                           ELSE parse_position(ev, d.pos, lat, Some(d.val))
           IN  after(parse_degrees(ev, pos + 1))
      [] e.k = "End" /\ e.name = "Position" ->
           IF IsSome(lat) /\ IsSome(lng)
           THEN [kind |-> "Ok", val |-> [lat |-> Unwrap(lat), lng |-> Unwrap(lng)],
                 pos |-> pos + 1]
           ELSE ErrAt(pos + 1)
      [] e.k = "Eof" -> ErrAt(pos)
      [] e.k = "Err" -> ErrAt(pos + 1)
      [] OTHER -> parse_position(ev, pos + 1, lat, lng)

RECURSIVE parse_trackpoint(_, _, _, _)
parse_trackpoint(ev, pos, point, time) ==
    LET e == read_event(ev, pos) IN
    CASE e.k = "Start" /\ e.name = "Position" ->
           LET after(p) == IF p.kind # "Ok" THEN p
                           ELSE parse_trackpoint(ev, p.pos, Some(p.val), time)
           IN  after(parse_position(ev, pos + 1, None, None))
      [] e.k = "Start" /\ e.name = "Time" ->
           LET after(t) == IF t.kind = "Ok"
                           THEN parse_trackpoint(ev, t.pos, point, Some(t.val))
                           ELSE parse_trackpoint(ev, t.pos, point, time)
           IN  after(parse_time(ev, pos + 1))
      [] e.k = "End" /\ e.name = "Trackpoint" ->
           IF IsSome(point)
           THEN [kind |-> "Ok", val |-> [center |-> Unwrap(point), time |-> time],
                 pos |-> pos + 1]
           ELSE ErrAt(pos + 1)
      [] e.k = "Eof" -> ErrAt(pos)
      [] e.k = "Err" -> ErrAt(pos + 1)
      [] OTHER -> parse_trackpoint(ev, pos + 1, point, time)

RECURSIVE parse_track(_, _, _)
parse_track(ev, pos, trk_pts) ==
    LET e == read_event(ev, pos) IN
    CASE e.k = "Start" /\ e.name = "Trackpoint" ->
           LET after(r) == IF r.kind = "Ok"
                           THEN parse_track(ev, r.pos, Append(trk_pts, r.val))
                           ELSE parse_track(ev, r.pos, trk_pts)
           IN  after(parse_trackpoint(ev, pos + 1, None, None))
      [] e.k = "End" /\ e.name = "Track" ->
           [kind |-> "Ok", pts |-> trk_pts, pos |-> pos + 1]
      [] e.k = "Eof" -> ErrAt(pos)
      [] e.k = "Err" -> ErrAt(pos + 1)
      [] OTHER -> parse_track(ev, pos + 1, trk_pts)

\* the event loop of parse_lap; trk_pts is the Option the loop overwrites
RECURSIVE lap_loop(_, _, _)
lap_loop(ev, pos, trk_pts) ==
    LET e == read_event(ev, pos) IN
    CASE e.k = "Start" /\ e.name = "Track" ->
           LET after(r) == IF r.kind # "Ok" THEN r
                           ELSE lap_loop(ev, r.pos, Some(r.pts))
           IN  after(parse_track(ev, pos + 1, <<>>))
      [] e.k = "End" /\ e.name = "Lap" ->
           [kind |-> "Ok", pts |-> IF IsSome(trk_pts) THEN Unwrap(trk_pts) ELSE <<>>,
            pos |-> pos + 1]
      [] e.k = "Eof" -> ErrAt(pos)
      [] e.k = "Err" -> ErrAt(pos + 1)
      [] OTHER -> lap_loop(ev, pos + 1, trk_pts)

\* the StartTime attribute loop of parse_lap: "out" (return no points),
\* "err" (the ? on the timestamp parse) or "in"
RECURSIVE lap_attrs(_, _, _, _)
lap_attrs(attrs, i, start, end) ==
    IF i > Len(attrs) THEN "in"
    ELSE IF attrs[i][1] = "StartTime"
    THEN LET t == ParseDateTime(attrs[i][2]) IN
         IF ~t.ok THEN "err"
         ELSE IF IsSome(start) /\ t.v < Unwrap(start) THEN "out"
         ELSE IF IsSome(end) /\ t.v > Unwrap(end) THEN "out"
         ELSE lap_attrs(attrs, i + 1, start, end)
    ELSE lap_attrs(attrs, i + 1, start, end)

parse_lap(ev, pos, event, start, end) ==
    LET after(a) == IF a = "out" THEN [kind |-> "Ok", pts |-> <<>>, pos |-> pos]
                    ELSE IF a = "err" THEN ErrAt(pos)
                    ELSE lap_loop(ev, pos, None)
    IN  after(IF IsSome(start) \/ IsSome(end)
              THEN lap_attrs(event.attrs, 1, start, end) ELSE "in")

RECURSIVE activity_loop(_, _, _, _, _)
activity_loop(ev, pos, start, end, trk_pts) ==
    LET e == read_event(ev, pos) IN
    CASE e.k = "Start" /\ e.name = "Lap" ->
           LET after(r) == IF r.kind # "Ok" THEN r
                           ELSE activity_loop(ev, r.pos, start, end, Some(r.pts))
           IN  after(parse_lap(ev, pos + 1, e, start, end))
      [] e.k = "End" /\ e.name = "Activity" ->
           [kind |-> "Ok", pts |-> IF IsSome(trk_pts) THEN Unwrap(trk_pts) ELSE <<>>,
            pos |-> pos + 1]
      [] e.k = "Eof" -> ErrAt(pos)
      [] e.k = "Err" -> ErrAt(pos + 1)
      [] OTHER -> activity_loop(ev, pos + 1, start, end, trk_pts)

\* the Sport attribute loop returning TRUE also when there is no Sport
\* attribute
RECURSIVE activity_attrs_requiring_sport(_, _, _)
activity_attrs_requiring_sport(attrs, i, filter_strings) ==
    IF i > Len(attrs) THEN TRUE
    ELSE IF attrs[i][1] = "Sport" THEN attrs[i][2] \notin filter_strings
    ELSE activity_attrs_requiring_sport(attrs, i + 1, filter_strings)

\* the Sport attribute loop of parse_activity: TRUE when some Sport
\* attribute is not among the filter strings
RECURSIVE activity_attrs(_, _, _)
activity_attrs(attrs, i, filter_strings) ==
    IF i > Len(attrs) THEN FALSE
    ELSE IF attrs[i][1] = "Sport" /\ attrs[i][2] \notin filter_strings THEN TRUE
    ELSE activity_attrs(attrs, i + 1, filter_strings)

parse_activity(ev, pos, event, filter_strings, start, end) ==
    IF IsSome(filter_strings) /\ activity_attrs(event.attrs, 1, Unwrap(filter_strings))
    THEN [kind |-> "Ok", pts |-> <<>>, pos |-> pos]
    ELSE activity_loop(ev, pos, start, end, None)

\* the event loop of tcx::get_pts
RECURSIVE tcx_loop(_, _, _, _, _, _)
tcx_loop(ev, pos, filter_strings, start, end, trk_pts) ==
    LET e == read_event(ev, pos) IN
    CASE e.k = "Start" /\ e.name = "Activity" ->
           LET after(r) == IF r.kind # "Ok" THEN Err
                           ELSE tcx_loop(ev, r.pos, filter_strings, start, end,
                                         Some(r.pts))
           IN  after(parse_activity(ev, pos + 1, e, filter_strings, start, end))
      [] e.k = "Eof" -> OkPts(IF IsSome(trk_pts) THEN Unwrap(trk_pts) ELSE <<>>)
      [] e.k = "Err" -> Err
      [] OTHER -> tcx_loop(ev, pos + 1, filter_strings, start, end, trk_pts)

tcx_get_pts(ev, pos, type_filters, start, end) ==
    tcx_loop(ev, pos, tcx_filter_strings(type_filters), start, end, None)

(***************************************************************************)
(* heatmap.rs: get_pts, the root-element dispatch.  gpx::get_pts takes an  *)
(* Option<ActivityType> of the kinds Bike and Run (gpx.rs:8, 14-18), so a  *)
(* GPX document is only parsed under a filter it can take (GpxFilters):    *)
(* none, or the single kind of a one-element list.                         *)
(***************************************************************************)
gpx_type_filter(type_filters) ==
    IF type_filters = None THEN None ELSE Some(Unwrap(type_filters)[1])

\* get_pts without the check for the <?xml> declaration
get_pts_no_decl(contents, type_filters, start, end) ==
    LET r == read_event(contents, 2)
    IN  IF r.k # "Start" THEN Err
        ELSE IF r.name = "gpx"
        THEN gpx_get_pts(contents, 3, gpx_type_filter(type_filters), start, end)
        ELSE IF r.name = "TrainingCenterDatabase"
        THEN tcx_get_pts(contents, 3, type_filters, start, end)
        ELSE Err

get_pts(contents, type_filters, start, end) ==
    LET d == read_event(contents, 1)
        r == read_event(contents, 2)
    IN  IF d.k # "Decl" THEN Err
        ELSE IF r.k # "Start" THEN Err
        ELSE IF r.name = "gpx"
        THEN gpx_get_pts(contents, 3, gpx_type_filter(type_filters), start, end)
        ELSE IF r.name = "TrainingCenterDatabase"
        THEN tcx_get_pts(contents, 3, type_filters, start, end)
        ELSE Err


(***************************************************************************)
(* Input documents.  A document is described by its header fields and a    *)
(* list of record kinds, and rendered to the event sequence the reader     *)
(* yields for it.  Record i carries the i-th latitude, longitude and time  *)
(* token, so that order and content of the samples are observable.         *)
(***************************************************************************)
LatTok(i) == <<"10", "20", "30", "40">>[i]
LonTok(i) == <<"-10", "-20", "-30", "-40">>[i]
TimeTok(i) == <<"T11", "T12", "T13", "T14">>[i]
BadTok == "x"

\* what record i denotes, written as numbers
LatVal(i) == 10 * i
LngVal(i) == 0 - 10 * i
TimeVal(i) == 10 + i

HeaderTimes == {None, Some("T1"), Some("T2"), Some("T3"), Some(BadTok)}

GpxKinds ==
    {"full", "notime", "empty", "nolat", "nolon", "badlat", "badtime",
     "outtrk", "outseg", "eof_trkpt", "eof_trkseg", "eof_trk"}

TcxKinds ==
    {"full", "notime", "nopos", "nolat", "nolon", "badlat", "badtime",
     "newtrack", "newlap", "newact",
     "eof_trackpoint", "eof_track", "eof_lap", "eof_activity"}

SeqsUpTo(S, n) == UNION {[1..m -> S] : m \in 0..n}

GpxDocs ==
    [fmt : {"gpx"}, time : HeaderTimes, type : {None, Some("1")},
     recs : SeqsUpTo(GpxKinds, MaxRecs)]

TcxDocs ==
    [fmt : {"tcx"}, time : HeaderTimes, type : {None, Some("Biking")},
     recs : SeqsUpTo(TcxKinds, MaxRecs)]

Ele == <<Start("ele", <<>>), Text("177.8"), End("ele")>>
TimeEl(n, tok) == <<Start(n, <<>>), Text(tok), End(n)>>

GpxPoint(lat, lon, body) ==
    <<Start("trkpt", lat \o lon)>> \o body \o <<End("trkpt")>>

GpxRec(kind, i) ==
    LET lat == <<<<"lat", LatTok(i)>>>>
        lon == <<<<"lon", LonTok(i)>>>>
        full == GpxPoint(lat, lon, Ele \o TimeEl("time", TimeTok(i)))
    IN  CASE kind = "full" -> full
          [] kind = "notime" -> GpxPoint(lat, lon, Ele)
          [] kind = "empty" -> <<Empty("trkpt", lat \o lon)>>
          [] kind = "nolat" -> GpxPoint(<<>>, lon, Ele \o TimeEl("time", TimeTok(i)))
          [] kind = "nolon" -> GpxPoint(lat, <<>>, Ele \o TimeEl("time", TimeTok(i)))
          [] kind = "badlat" -> GpxPoint(<<<<"lat", BadTok>>>>, lon, Ele)
          [] kind = "badtime" -> GpxPoint(lat, lon, TimeEl("time", BadTok))
          [] kind = "outseg" -> <<End("trkseg")>> \o full \o <<Start("trkseg", <<>>)>>
          [] kind = "outtrk" -> <<End("trkseg"), End("trk")>> \o full
                                \o <<Start("trk", <<>>), Start("trkseg", <<>>)>>
          [] kind = "eof_trkpt" -> <<Start("trkpt", lat \o lon), Eof>>
          [] kind = "eof_trkseg" -> <<Eof>>
          [] kind = "eof_trk" -> <<End("trkseg"), Eof>>

TcxPosition(lat, lon) ==
    <<Start("Position", <<>>)>> \o lat \o lon \o <<End("Position")>>

TcxPoint(body) == <<Start("Trackpoint", <<>>)>> \o body \o <<End("Trackpoint")>>

TcxOpen(what, d) ==
    CASE what = "Activity" ->
           <<Start("Activity", IF IsSome(d.type) THEN <<<<"Sport", Unwrap(d.type)>>>>
                                                 ELSE <<>>),
             Start("Id", <<>>), Text("id"), End("Id")>>
      [] what = "Lap" ->
           <<Start("Lap", IF IsSome(d.time) THEN <<<<"StartTime", Unwrap(d.time)>>>>
                                            ELSE <<>>),
             Start("Calories", <<>>), Text("0"), End("Calories")>>
      [] what = "Track" -> <<Start("Track", <<>>)>>

TcxRec(kind, i, d) ==
    LET lat == TimeEl("LatitudeDegrees", LatTok(i))
        lon == TimeEl("LongitudeDegrees", LonTok(i))
        tim == TimeEl("Time", TimeTok(i))
        alt == TimeEl("AltitudeMeters", "177.8")
    IN  CASE kind = "full" -> TcxPoint(tim \o TcxPosition(lat, lon) \o alt)
          [] kind = "notime" -> TcxPoint(TcxPosition(lat, lon) \o alt)
          [] kind = "nopos" -> TcxPoint(tim \o alt)
          [] kind = "nolat" -> TcxPoint(tim \o TcxPosition(<<>>, lon) \o alt)
          [] kind = "nolon" -> TcxPoint(tim \o TcxPosition(lat, <<>>) \o alt)
          [] kind = "badlat" ->
               TcxPoint(tim \o TcxPosition(TimeEl("LatitudeDegrees", BadTok), lon) \o alt)
          [] kind = "badtime" ->
               TcxPoint(TimeEl("Time", BadTok) \o TcxPosition(lat, lon) \o alt)
          [] kind = "newtrack" -> <<End("Track")>> \o TcxOpen("Track", d)
          [] kind = "newlap" -> <<End("Track"), End("Lap")>>
                                \o TcxOpen("Lap", d) \o TcxOpen("Track", d)
          [] kind = "newact" -> <<End("Track"), End("Lap"), End("Activity")>>
                                \o TcxOpen("Activity", d) \o TcxOpen("Lap", d)
                                \o TcxOpen("Track", d)
          [] kind = "outtrack" ->
               <<End("Track")>> \o TcxPoint(tim \o TcxPosition(lat, lon) \o alt)
               \o TcxOpen("Track", d)
          [] kind = "outlap" ->
               <<End("Track"), End("Lap"), Start("Track", <<>>)>>
               \o TcxPoint(tim \o TcxPosition(lat, lon) \o alt) \o <<End("Track")>>
               \o TcxOpen("Lap", d) \o TcxOpen("Track", d)
          [] kind = "outact" ->
               <<End("Track"), End("Lap"), End("Activity")>>
               \o TcxOpen("Lap", d) \o <<Start("Track", <<>>)>>
               \o TcxPoint(tim \o TcxPosition(lat, lon) \o alt)
               \o <<End("Track"), End("Lap")>>
               \o TcxOpen("Activity", d) \o TcxOpen("Lap", d) \o TcxOpen("Track", d)
          [] kind = "eof_trackpoint" -> <<Start("Trackpoint", <<>>)>> \o tim \o <<Eof>>
          [] kind = "eof_track" -> <<Eof>>
          [] kind = "eof_lap" -> <<End("Track"), Eof>>
          [] kind = "eof_activity" -> <<End("Track"), End("Lap"), Eof>>

RECURSIVE RenderRecs(_, _)
RenderRecs(d, i) ==
    IF i > Len(d.recs) THEN <<>>
    ELSE (IF d.fmt = "gpx" THEN GpxRec(d.recs[i], i) ELSE TcxRec(d.recs[i], i, d))
         \o RenderRecs(d, i + 1)

RenderAll(d) ==
    IF d.fmt = "gpx"
    THEN <<Decl, Start("gpx", <<>>)>>
         \o (IF IsSome(d.time)
             THEN <<Start("metadata", <<>>)>> \o TimeEl("time", Unwrap(d.time))
                  \o <<End("metadata")>>
             ELSE <<>>)
         \o <<Start("trk", <<>>)>> \o TimeEl("name", "Ride")
         \o (IF IsSome(d.type) THEN TimeEl("type", Unwrap(d.type)) ELSE <<>>)
         \o <<Start("trkseg", <<>>)>>
         \o RenderRecs(d, 1)
         \o <<End("trkseg"), End("trk"), End("gpx")>>
    ELSE <<Decl, Start("TrainingCenterDatabase", <<>>), Start("Activities", <<>>)>>
         \o TcxOpen("Activity", d) \o TcxOpen("Lap", d) \o TcxOpen("Track", d)
         \o RenderRecs(d, 1)
         \o <<End("Track"), End("Lap"), End("Activity"), End("Activities"),
              End("TrainingCenterDatabase")>>

\* the input ends where the first Eof stands
UpToEof(ev) ==
    LET at == {i \in 1..Len(ev) : ev[i].k = "Eof"} IN
    IF at = {} THEN ev
    ELSE SubSeq(ev, 1, (CHOOSE i \in at : \A j \in at : i <= j) - 1)

Contents(d) == UpToEof(RenderAll(d))

(***************************************************************************)
(* Run configuration (main.rs:91-121).                                     *)
(***************************************************************************)
FilterLists ==
    {None, Some(<<"Bike">>), Some(<<"Run">>), Some(<<"Bike", "Run">>)}
GpxFilters == {None, Some(<<"Bike">>), Some(<<"Run">>)}
Bounds == {None, Some(2)}

VARIABLES
    type_filters, start, end,  \* the filters of the run
    doc, res,                  \* the document handed to get_pts, and its result
    stack,      \* the calls of get_pts_from_files in progress: of each, its
                \* local trk_pts and how many paths of its file_list are done
    run,        \* "loading", "returned" (trk_pts back in main) or "aborted" (panic)
    track_set,  \* what get_pts_from_files returned to main
    parsed_ok,  \* history: the samples of each file parsed to >= 1 sample, in order
    skipped,    \* history: some file inside a directory parsed to Ok with no sample
    pc,         \* where main stands after get_pts_from_files returned
    corners,    \* opt.corners: the --box option, None or Some(its text split at ',')
    box,        \* the (min, max) main settles on, None before
    steps,      \* history: the functions main has called after loading, in order
    render_in,  \* overlay_image: map_info, track_color, factor, min_alpha
    map_image,  \* overlay_image: the canvas
    base_image, \* history: the canvas as it was passed in
    factors,    \* overlay_image: the count table, height rows of width entries
    prev,       \* overlay_image: prev_x, prev_y, prev_time
    hist,       \* history: the sample of the last loop iteration and the state before it
    rphase,     \* overlay_image: "idle", "drawing", "done" (returned) or "panic"
    nsamples    \* samples the loops have gone through

main_vars == <<pc, corners, box, steps>>

render_vars ==
    <<render_in, map_image, base_image, factors, prev, hist, rphase, nsamples>>

vars ==
    <<type_filters, start, end, doc, res, stack, run, track_set, parsed_ok, skipped,
      main_vars, render_vars>>

\* main has not come to the line after get_pts_from_files
MainIdle == pc = "idle" /\ corners = None /\ box = None /\ steps = <<>>

\* overlay_image has not been called
RenderIdle ==
    /\ render_in = None /\ map_image = None /\ base_image = None
    /\ factors = <<>> /\ prev = None /\ hist = None
    /\ rphase = "idle" /\ nsamples = 0

batch_vars == <<stack, run, track_set, parsed_ok, skipped>>

\* no document handed to get_pts yet
NoDoc == [fmt |-> "none"]

InitParse ==
    /\ type_filters \in FilterLists
    /\ start \in Bounds
    /\ end \in Bounds
    /\ doc = NoDoc
    /\ res = None
    /\ stack = <<>>
    /\ run = "loading"
    /\ track_set = <<>>
    /\ parsed_ok = <<>>
    /\ skipped = FALSE
    /\ MainIdle
    /\ RenderIdle

\* one call of heatmap::get_pts on the contents of one file
GetPts(d) ==
    /\ doc' = d
    /\ res' = Some(get_pts(Contents(d), type_filters, start, end))
    /\ UNCHANGED <<type_filters, start, end>>
    /\ UNCHANGED batch_vars
    /\ UNCHANGED <<main_vars, render_vars>>

ParseGpx ==
    /\ doc = NoDoc
    /\ type_filters \in GpxFilters
    /\ \E d \in GpxDocs : GetPts(d)

ParseTcx ==
    /\ doc = NoDoc
    /\ \E d \in TcxDocs : GetPts(d)

NextParse == ParseGpx \/ ParseTcx

SpecParse == InitParse /\ [][NextParse]_vars


(***************************************************************************)
(* heatmap.rs: get_pts on documents that differ in what stands before the  *)
(* body: the first event, the second event (the root element), and the     *)
(* body of a GPX or of a TCX document after that.                          *)
(***************************************************************************)
\* an event that is neither a declaration nor a start tag: <!DOCTYPE ..>
DocType == [k |-> "DocType"]

\* the first event: the declaration, none (the root comes first), a reader
\* error
Preambles == {"decl", "none", "err"}
\* the second event: a start tag, a self-closing tag, a DOCTYPE, a reader
\* error
RootForms == {"start", "empty", "doctype", "err"}
RootNames == {"gpx", "TrainingCenterDatabase", "kml"}

\* TCX records out of place: a Trackpoint in a Lap but in no Track, a Track in
\* an Activity but in no Lap, a Lap in no Activity
TcxStrayRecs == {<<"outtrack", "full">>, <<"full", "outlap">>, <<"outact", "full">>}

RootedDocs ==
    [fmt : {"rooted"}, pre : Preambles, form : RootForms, root : RootNames,
     body : {"gpx", "tcx"}, time : {None}, type : {None},
     recs : {<<"full">>, <<"full", "notime">>, <<"badlat">>}]
    \cup
    [fmt : {"rooted"}, pre : Preambles, form : RootForms, root : RootNames,
     body : {"tcx"}, time : {None}, type : {None}, recs : TcxStrayRecs]

\* the events of such a document
RootedContents(d) ==
    LET body == RenderAll([fmt |-> d.body, time |-> d.time, type |-> d.type,
                           recs |-> d.recs])
    IN  (CASE d.pre = "decl" -> <<Decl>>
           [] d.pre = "none" -> <<>>
           [] d.pre = "err" -> <<XmlErr>>)
        \o (CASE d.form = "start" -> <<Start(d.root, <<>>)>>
              [] d.form = "empty" -> <<Empty(d.root, <<>>)>>
              [] d.form = "doctype" -> <<DocType, Start(d.root, <<>>)>>
              [] d.form = "err" -> <<XmlErr>>)
        \o SubSeq(body, 3, Len(body))

InitRoute ==
    /\ type_filters \in GpxFilters
    /\ start \in Bounds
    /\ end \in Bounds
    /\ doc = NoDoc
    /\ res = None
    /\ stack = <<>>
    /\ run = "loading"
    /\ track_set = <<>>
    /\ parsed_ok = <<>>
    /\ skipped = FALSE
    /\ MainIdle
    /\ RenderIdle

\* one call of heatmap::get_pts on such a document
ParseRooted ==
    /\ doc = NoDoc
    /\ \E d \in RootedDocs :
         /\ doc' = d
         /\ res' = Some(get_pts(RootedContents(d), type_filters, start, end))
    /\ UNCHANGED <<type_filters, start, end>>
    /\ UNCHANGED batch_vars
    /\ UNCHANGED <<main_vars, render_vars>>

NextRoute == ParseRooted

SpecRoute == InitRoute /\ [][NextRoute]_vars


(***************************************************************************)
(* Documents of one or two containers, each with its own type and start    *)
(* time: a GPX document of one or two trk, a TCX document of one or two    *)
(* Activity or of one Activity of two Lap.  The records of the first       *)
(* container are numbered from 1, those of the second from 3.              *)
(***************************************************************************)
PartRecs == {<<>>, <<"full">>, <<"full", "notime">>, <<"badlat">>}
PartTimes == {None, Some("T1"), Some("T3")}

GpxParts == [type : {None, Some("1"), Some("9")}, time : {None}, recs : PartRecs,
             opens : {"trk"}]
TcxParts == [type : {None, Some("Biking"), Some("Running")}, time : PartTimes,
             recs : PartRecs, opens : {"Activity", "Lap"}]

\* a second Lap is in the Activity of the first
PartDocs ==
    {[fmt |-> "gpx", time |-> t, parts |-> ps] :
        t \in PartTimes, ps \in [1..1 -> GpxParts] \cup [1..2 -> GpxParts]}
    \cup
    {[fmt |-> "tcx", time |-> None, parts |-> ps] :
        ps \in {q \in [1..1 -> TcxParts] \cup [1..2 -> TcxParts] :
                   /\ q[1].opens = "Activity"
                   /\ Len(q) = 2 /\ q[2].opens = "Lap" => q[2].type = q[1].type}}

\* the records of part k of d
RECURSIVE PartRecords(_, _, _)
PartRecords(d, k, j) ==
    IF j > Len(d.parts[k].recs) THEN <<>>
    ELSE (IF d.fmt = "gpx" THEN GpxRec(d.parts[k].recs[j], 2 * (k - 1) + j)
          ELSE TcxRec(d.parts[k].recs[j], 2 * (k - 1) + j, d.parts[k]))
         \o PartRecords(d, k, j + 1)

\* the trk of part k
GpxPart(d, k) ==
    <<Start("trk", <<>>)>> \o TimeEl("name", "Ride")
    \o (IF IsSome(d.parts[k].type) THEN TimeEl("type", Unwrap(d.parts[k].type)) ELSE <<>>)
    \o <<Start("trkseg", <<>>)>> \o PartRecords(d, k, 1) \o <<End("trkseg"), End("trk")>>

\* the Lap of part k, in a new Activity or in the Activity that is open
TcxPart(d, k) ==
    (IF d.parts[k].opens = "Activity"
     THEN (IF k > 1 THEN <<End("Activity")>> ELSE <<>>) \o TcxOpen("Activity", d.parts[k])
     ELSE <<>>)
    \o TcxOpen("Lap", d.parts[k]) \o TcxOpen("Track", d.parts[k])
    \o PartRecords(d, k, 1) \o <<End("Track"), End("Lap")>>

RECURSIVE PartsFrom(_, _)
PartsFrom(d, k) ==
    IF k > Len(d.parts) THEN <<>>
    ELSE (IF d.fmt = "gpx" THEN GpxPart(d, k) ELSE TcxPart(d, k)) \o PartsFrom(d, k + 1)

\* the events of such a document
PartContents(d) ==
    IF d.fmt = "gpx"
    THEN <<Decl, Start("gpx", <<>>)>>
         \o (IF IsSome(d.time)
             THEN <<Start("metadata", <<>>)>> \o TimeEl("time", Unwrap(d.time))
                  \o <<End("metadata")>>
             ELSE <<>>)
         \o PartsFrom(d, 1) \o <<End("gpx")>>
    ELSE <<Decl, Start("TrainingCenterDatabase", <<>>), Start("Activities", <<>>)>>
         \o PartsFrom(d, 1)
         \o <<End("Activity"), End("Activities"), End("TrainingCenterDatabase")>>

InitParts ==
    /\ type_filters \in GpxFilters
    /\ start \in Bounds
    /\ end \in Bounds
    /\ doc = NoDoc
    /\ res = None
    /\ stack = <<>>
    /\ run = "loading"
    /\ track_set = <<>>
    /\ parsed_ok = <<>>
    /\ skipped = FALSE
    /\ MainIdle
    /\ RenderIdle

\* one call of heatmap::get_pts on such a document
ParseParts ==
    /\ doc = NoDoc
    /\ \E d \in PartDocs :
         /\ doc' = d
         /\ res' = Some(get_pts(PartContents(d), type_filters, start, end))
    /\ UNCHANGED <<type_filters, start, end>>
    /\ UNCHANGED batch_vars
    /\ UNCHANGED <<main_vars, render_vars>>

NextParts == ParseParts

SpecParts == InitParts /\ [][NextParts]_vars


(***************************************************************************)
(* Documents of one trk or Activity of a declared type, read under every   *)
(* filter main.rs:108-121 can build: Bike, Run, Walk pushed in this order. *)
(* heatmap.rs:110 hands the list to gpx::get_pts, whose parameter is one   *)
(* Option<ActivityType> matched on Bike, Run and None (gpx.rs:8, 14-18).   *)
(* What gpx::get_pts is given for a list of several kinds, and what string *)
(* it filters on for Walk, the source leaves open: any kind of the list,   *)
(* and for Walk any of the filter strings the function has.                *)
(***************************************************************************)
KindFilters ==
    {Some(<<"Bike">>), Some(<<"Run">>), Some(<<"Walk">>), Some(<<"Bike", "Run">>),
     Some(<<"Bike", "Walk">>), Some(<<"Run", "Walk">>), Some(<<"Bike", "Run", "Walk">>)}

KindRecs == {<<"full">>, <<"notime">>, <<"full", "notime">>}

KindDocs ==
    {[fmt |-> "gpx", time |-> None,
      parts |-> <<[type |-> Some(t), time |-> None, recs |-> r, opens |-> "trk"]>>] :
        t \in {"1", "9", "10"}, r \in KindRecs}
    \cup
    {[fmt |-> "tcx", time |-> None,
      parts |-> <<[type |-> Some(t), time |-> None, recs |-> r, opens |-> "Activity"]>>] :
        t \in {"Biking", "Running", "Other"}, r \in KindRecs}

\* the filters gpx::get_pts can be given for type_filters
gpx_takes(filters) ==
    IF filters = None THEN {None}
    ELSE UNION {IF Unwrap(filters)[i] = "Walk" THEN GpxFilters
                ELSE {Some(<<Unwrap(filters)[i]>>)} : i \in 1..Len(Unwrap(filters))}

InitKinds ==
    /\ type_filters \in KindFilters
    /\ start = None
    /\ end = None
    /\ doc = NoDoc
    /\ res = None
    /\ stack = <<>>
    /\ run = "loading"
    /\ track_set = <<>>
    /\ parsed_ok = <<>>
    /\ skipped = FALSE
    /\ MainIdle
    /\ RenderIdle

\* one call of heatmap::get_pts on such a document
ParseKinds ==
    /\ doc = NoDoc
    /\ \E d \in KindDocs :
         \E f \in (IF d.fmt = "gpx" THEN gpx_takes(type_filters) ELSE {type_filters}) :
            /\ doc' = d
            /\ res' = Some(get_pts(PartContents(d), f, start, end))
    /\ UNCHANGED <<type_filters, start, end>>
    /\ UNCHANGED batch_vars
    /\ UNCHANGED <<main_vars, render_vars>>

NextKinds == ParseKinds

SpecKinds == InitKinds /\ [][NextKinds]_vars


(***************************************************************************)
(* heatmap.rs: get_pts_from_files, get_pts_file, get_pts_dir.  One action  *)
(* per iteration of the loop over file_list; the recursion through         *)
(* get_pts_dir is the stack.  The paths of a list are drawn as the loop    *)
(* comes to them.                                                          *)
(***************************************************************************)
\* documents for the batch: at most one record, with or without a type;
\* the batch runs with no filter or with the filter Run
BatchDocs ==
    [fmt : {"gpx"}, time : {None}, type : {None, Some("1")},
     recs : {<<>>, <<"full">>, <<"badlat">>, <<"outseg">>}]
    \cup
    [fmt : {"tcx"}, time : {None}, type : {None, Some("Biking")},
     recs : {<<"full">>, <<"nolat">>, <<"eof_lap">>}]

BatchFilters == {None, Some(<<"Run">>)}
BatchBounds == {None}

NewCall == [trk_pts |-> <<>>, n |-> 0]

Top == stack[Len(stack)]

\* the running call after one more path of its list, with trk_pts now t
Advance(t) ==
    [stack EXCEPT ![Len(stack)] = [trk_pts |-> t, n |-> @.n + 1]]

\* Ok(pts) => if !pts.is_empty() { trk_pts.push(pts) }, without the test
push_always(trk_pts, pts) == Append(trk_pts, pts)

\* Ok(pts) => if !pts.is_empty() { trk_pts.push(pts) }
push_nonempty(trk_pts, pts) == IF pts # <<>> THEN Append(trk_pts, pts) ELSE trk_pts

\* get_pts_file on a file that was read
get_pts_file(contents) == get_pts(contents, type_filters, start, end)

InitBatch ==
    /\ type_filters \in BatchFilters
    /\ start \in BatchBounds
    /\ end \in BatchBounds
    /\ doc = NoDoc
    /\ res = None
    /\ stack = <<NewCall>>
    /\ run = "loading"
    /\ track_set = <<>>
    /\ parsed_ok = <<>>
    /\ skipped = FALSE
    /\ MainIdle
    /\ RenderIdle

MorePaths == run = "loading" /\ Top.n < MaxPaths

\* the path is a regular file that is read and parsed
FilePath ==
    /\ MorePaths
    /\ \E d \in BatchDocs :
          /\ d.fmt = "gpx" => type_filters \in GpxFilters
          /\ LET match(r) ==
                     /\ run' = IF r.kind = "Panic" THEN "aborted" ELSE "loading"
                     /\ stack' = IF r.kind = "Ok"
                                 THEN Advance(push_nonempty(Top.trk_pts, r.pts))
                                 ELSE IF r.kind = "Err" THEN Advance(Top.trk_pts)
                                 ELSE stack
                     /\ parsed_ok' = IF r.kind = "Ok" /\ r.pts # <<>>
                                     THEN Append(parsed_ok, r.pts) ELSE parsed_ok
                     /\ skipped' = (skipped \/ (r = OkPts(<<>>) /\ Len(stack) > 1))
             IN  match(get_pts_file(Contents(d)))
    /\ UNCHANGED <<type_filters, start, end, doc, res, track_set>>
    /\ UNCHANGED <<main_vars, render_vars>>

\* the path is a regular file and fs::read_to_string fails
UnreadableFile ==
    /\ MorePaths
    /\ stack' = Advance(Top.trk_pts)
    /\ UNCHANGED <<type_filters, start, end, doc, res, run, track_set, parsed_ok, skipped>>
    /\ UNCHANGED <<main_vars, render_vars>>

\* fs::metadata fails on the path
StatError ==
    /\ MorePaths
    /\ stack' = Advance(Top.trk_pts)
    /\ UNCHANGED <<type_filters, start, end, doc, res, run, track_set, parsed_ok, skipped>>
    /\ UNCHANGED <<main_vars, render_vars>>

\* the path is neither a regular file nor a directory
OtherPath ==
    /\ MorePaths
    /\ stack' = Advance(Top.trk_pts)
    /\ UNCHANGED <<type_filters, start, end, doc, res, run, track_set, parsed_ok, skipped>>
    /\ UNCHANGED <<main_vars, render_vars>>

\* the path is a directory that fs::read_dir lists: get_pts_dir calls
\* get_pts_from_files on its entries
EnterDirWithin(depth) ==
    /\ MorePaths
    /\ Len(stack) < depth
    /\ stack' = Append(stack, NewCall)
    /\ UNCHANGED <<type_filters, start, end, doc, res, run, track_set, parsed_ok, skipped>>
    /\ UNCHANGED <<main_vars, render_vars>>

EnterDir == EnterDirWithin(MaxDepth)

\* the path is a directory and fs::read_dir fails: expect panics
DirUnlistable ==
    /\ MorePaths
    /\ run' = "aborted"
    /\ UNCHANGED <<type_filters, start, end, doc, res, stack, track_set, parsed_ok, skipped>>
    /\ UNCHANGED <<main_vars, render_vars>>

\* the nested call is through its list: get_pts_dir returns, and the caller
\* appends dir_pts to its trk_pts and goes on to its next path
LeaveDir ==
    /\ run = "loading"
    /\ Len(stack) > 1
    /\ stack' = [i \in 1..(Len(stack) - 1) |->
                    IF i = Len(stack) - 1
                    THEN [trk_pts |-> stack[i].trk_pts \o Top.trk_pts,
                          n |-> stack[i].n + 1]
                    ELSE stack[i]]
    /\ UNCHANGED <<type_filters, start, end, doc, res, run, track_set, parsed_ok, skipped>>
    /\ UNCHANGED <<main_vars, render_vars>>

\* the call from main is through its list and returns trk_pts
Return ==
    /\ run = "loading"
    /\ Len(stack) = 1
    /\ run' = "returned"
    /\ track_set' = Top.trk_pts
    /\ stack' = <<>>
    /\ UNCHANGED <<type_filters, start, end, doc, res, parsed_ok, skipped>>
    /\ UNCHANGED <<main_vars, render_vars>>

Next ==
    \/ FilePath
    \/ UnreadableFile
    \/ StatError
    \/ OtherPath
    \/ EnterDir
    \/ DirUnlistable
    \/ LeaveDir
    \/ Return

Spec == InitBatch /\ [][Next]_vars

(***************************************************************************)
(* The same loop where a directory of the list may hold directories of its *)
(* own: get_pts_dir hands every entry of the directory to                  *)
(* get_pts_from_files (heatmap.rs:178-186), which calls get_pts_dir on an  *)
(* entry that is a directory (heatmap.rs:140-142).                         *)
(***************************************************************************)
MaxNest == 1

\* the path is a directory, of the list or up to MaxNest levels inside one
EnterNestedDir == EnterDirWithin(MaxDepth + MaxNest)

NextDirs ==
    \/ FilePath
    \/ UnreadableFile
    \/ StatError
    \/ OtherPath
    \/ EnterNestedDir
    \/ DirUnlistable
    \/ LeaveDir
    \/ Return

SpecDirs == InitBatch /\ [][NextDirs]_vars


(***************************************************************************)
(* heatmap.rs: min_max.  Coordinates are whole degrees; the parsers check  *)
(* no range, so a latitude beyond 90 or a longitude beyond 180 is a value  *)
(* a TrackSet can hold.                                                    *)
(***************************************************************************)
\* f64::max, f64::min: if one of the arguments is NaN the other is returned
f64_max(a, b) == IF a = NaN THEN b ELSE IF b = NaN THEN a ELSE IF a >= b THEN a ELSE b
f64_min(a, b) == IF a = NaN THEN b ELSE IF b = NaN THEN a ELSE IF a <= b THEN a ELSE b

\* the four assignments of the inner loop body
min_max_pt(acc, pt) ==
    [min |-> [lat |-> f64_min(acc.min.lat, pt.center.lat),
              lng |-> f64_min(acc.min.lng, pt.center.lng)],
     max |-> [lat |-> f64_max(acc.max.lat, pt.center.lat),
              lng |-> f64_max(acc.max.lng, pt.center.lng)]]

\* for pt in v
RECURSIVE min_max_v(_, _, _)
min_max_v(v, i, acc) ==
    IF i > Len(v) THEN acc ELSE min_max_v(v, i + 1, min_max_pt(acc, v[i]))

\* for v in pts
RECURSIVE min_max_loop(_, _, _)
min_max_loop(pts, a, acc) ==
    IF a > Len(pts) THEN acc
    ELSE min_max_loop(pts, a + 1, min_max_v(pts[a], 1, acc))

min_max(pts) ==
    min_max_loop(pts, 1, [min |-> [lat |-> 90, lng |-> 180],
                          max |-> [lat |-> -90, lng |-> -180]])

(***************************************************************************)
(* main.rs: main from the call of get_pts_from_files on.  One action per   *)
(* step of the pipeline; steps records the calls made.  calculate_map, the *)
(* image fetch, overlay_image and the save are only recorded here, with    *)
(* the panics their expects allow; overlay_image itself is SpecRender.     *)
(***************************************************************************)
\* total samples of a TrackSet main is run on
MaxSamples == 3

BoxPoints ==
    {TrkPt(35, 77, None), TrkPt(33, 78, None), TrkPt(95, 77, None),
     TrkPt(33, -185, None)}

\* the TrackSets of n samples in all: no activity is empty
RECURSIVE TrackSetsOf(_)
TrackSetsOf(n) ==
    IF n = 0 THEN {<<>>}
    ELSE UNION {{<<v>> \o t : v \in [1..k -> BoxPoints], t \in TrackSetsOf(n - k)} :
                   k \in 1..n}

TrackSets == UNION {TrackSetsOf(n) : n \in 0..MaxSamples}

\* --box: absent, four numbers, a field that is no number, three fields
CornerOptions ==
    {None, Some(<<"20", "20", "10", BadTok>>), Some(<<"20", "20", "10">>)}
    \cup {Some(c) : c \in [1..4 -> {"10", "20"}]}

\* trk_pts.is_empty(), never true
no_valid_files_never(trk_pts) == FALSE

\* trk_pts.is_empty()
no_valid_files(trk_pts) == trk_pts = <<>>

\* the test on the --box values, with < for <=
degenerate_box_strict(max_lat, max_lng, min_lat, min_lng) ==
    max_lat < min_lat \/ max_lng < min_lng

\* max_lat <= min_lat || max_lng <= min_lng
degenerate_box(max_lat, max_lng, min_lat, min_lng) ==
    max_lat <= min_lat \/ max_lng <= min_lng

\* parse_lat_lng: [ok |-> FALSE] is its process::exit(1)
parse_lat_lng(val) == ParseF64(val)

\* the --box branch: process::exit(1), or the (min, max) it builds
box_from_corners(c) ==
    IF Len(c) # 4 THEN [exit |-> TRUE]
    ELSE LET use(max_lat, max_lng, min_lat, min_lng) ==
                 IF ~max_lat.ok \/ ~max_lng.ok \/ ~min_lat.ok \/ ~min_lng.ok
                 THEN [exit |-> TRUE]
                 ELSE IF degenerate_box(max_lat.v, max_lng.v, min_lat.v, min_lng.v)
                 THEN [exit |-> TRUE]
                 ELSE [exit |-> FALSE,
                       min |-> [lat |-> min_lat.v, lng |-> min_lng.v],
                       max |-> [lat |-> max_lat.v, lng |-> max_lng.v]]
         IN  use(parse_lat_lng(c[1]), parse_lat_lng(c[2]),
                 parse_lat_lng(c[3]), parse_lat_lng(c[4]))

InitMain ==
    /\ type_filters = None /\ start = None /\ end = None
    /\ doc = NoDoc /\ res = None
    /\ stack = <<>> /\ run = "returned"
    /\ track_set \in TrackSets
    /\ parsed_ok = track_set
    /\ skipped = FALSE
    /\ pc = "loaded"
    /\ corners \in CornerOptions
    /\ box = None
    /\ steps = <<>>
    /\ RenderIdle

main_frame ==
    /\ UNCHANGED <<type_filters, start, end, doc, res, corners>>
    /\ UNCHANGED batch_vars
    /\ UNCHANGED render_vars

\* if trk_pts.is_empty() { process::exit(2) }
CheckLoaded ==
    /\ pc = "loaded"
    /\ pc' = IF no_valid_files(track_set) THEN "exit2" ELSE "box"
    /\ UNCHANGED <<box, steps>>
    /\ main_frame

\* let (min, max) = if let Some(corners) = opt.corners { .. } else { min_max(..) }
ChooseBox ==
    /\ pc = "box"
    /\ IF IsSome(corners)
       THEN LET set(b) == /\ pc' = IF b.exit THEN "exit1" ELSE "map"
                          /\ box' = IF b.exit THEN box
                                    ELSE Some([min |-> b.min, max |-> b.max])
            IN  set(box_from_corners(Unwrap(corners))) /\ UNCHANGED steps
       ELSE /\ pc' = "map"
            /\ box' = Some(min_max(track_set))
            /\ steps' = Append(steps, "min_max")
    /\ main_frame

\* heatmap::calculate_map(pixels, &min, &max, 2.0)
CalculateMap ==
    /\ pc = "map"
    /\ pc' = "fetch"
    /\ steps' = Append(steps, "calculate_map")
    /\ UNCHANGED box
    /\ main_frame

\* reqwest::get, PNGDecoder, RgbImage::from_raw: each expect may panic
FetchImage ==
    /\ pc = "fetch"
    /\ pc' \in {"overlay", "panic"}
    /\ steps' = Append(steps, "get")
    /\ UNCHANGED box
    /\ main_frame

\* heatmap::overlay_image(..)
OverlayImage ==
    /\ pc = "overlay"
    /\ pc' \in {"save", "panic"}
    /\ steps' = Append(steps, "overlay_image")
    /\ UNCHANGED box
    /\ main_frame

\* heatmap_image.save(..).expect(..)
SaveImage ==
    /\ pc = "save"
    /\ pc' \in {"done", "panic"}
    /\ steps' = Append(steps, "save")
    /\ UNCHANGED box
    /\ main_frame

NextMain ==
    \/ CheckLoaded
    \/ ChooseBox
    \/ CalculateMap
    \/ FetchImage
    \/ OverlayImage
    \/ SaveImage

SpecMain == InitMain /\ [][NextMain]_vars

(***************************************************************************)
(* main on TrackSets that hold a sample whose latitude or longitude was    *)
(* written as "NaN", which the parsers take as they take any f64           *)
(* (gpx.rs:147-148, 159-160; tcx.rs:292-295).                              *)
(***************************************************************************)
NanPoints == {TrkPt(NaN, 77, None), TrkPt(35, NaN, None), TrkPt(33, 78, None)}

\* up to MaxSamples activities of one sample, or one activity of two
NanTrackSets ==
    UNION {[1..a -> [1..1 -> NanPoints]] : a \in 1..MaxSamples}
    \cup {<<v>> : v \in [1..2 -> NanPoints]}

InitNan ==
    /\ type_filters = None /\ start = None /\ end = None
    /\ doc = NoDoc /\ res = None
    /\ stack = <<>> /\ run = "returned"
    /\ track_set \in NanTrackSets
    /\ parsed_ok = track_set
    /\ skipped = FALSE
    /\ pc = "loaded"
    /\ corners \in CornerOptions
    /\ box = None
    /\ steps = <<>>
    /\ RenderIdle

SpecNan == InitNan /\ [][NextMain]_vars


(***************************************************************************)
(* heatmap.rs: overlay_image, the loops over the samples.  An f64 is a     *)
(* whole number or a fraction [n, d] with d > 0; the products, quotients   *)
(* and roundings below are exact, as they are in f64 for the line spans    *)
(* (below 6 pixels) and the counts (below 5) the bounds allow.  A time is  *)
(* in milliseconds.  A pixel is <<x, y>>.                                  *)
(***************************************************************************)
\* side of the square canvas
Side == 6
\* samples one call of overlay_image goes through
MaxPts == 3

\* f64::round of n / d: halves go away from zero
Round(n, d) ==
    IF n >= 0 THEN (2 * n + d) \div (2 * d) ELSE -((2 * (-n) + d) \div (2 * d))

\* ((v - min) * scale).round() as i32
project(v, min, scale) == Round((v - min) * scale.n, scale.d)

\* x < 1 || x > max_x || y < 1 || y > max_y, with max_x = width - 1
out_of_frame_loose(x, y, width, height) ==
    x < 1 \/ x > width - 1 \/ y < 1 \/ y > height - 2

\* x < 1 || x > max_x || y < 1 || y > max_y
out_of_frame(x, y, width, height) ==
    x < 1 \/ x > width - 2 \/ y < 1 \/ y > height - 2

\* chrono: Duration::num_seconds, the whole seconds of d, towards zero
num_seconds(d) == IF d >= 0 THEN d \div 1000 ELSE -((-d) \div 1000)

abs(i) == IF i >= 0 THEN i ELSE -i

\* the condition of the line, with a line for two timestamps only
connects_timed_only(time, prev_time) ==
    /\ time # None
    /\ prev_time # None
    /\ abs(num_seconds(Unwrap(time) - Unwrap(prev_time))) <= 5

\* pt.time.is_none() || prev_time.is_none() || (..).num_seconds().abs() <= 5
connects(time, prev_time) ==
    \/ time = None
    \/ prev_time = None
    \/ abs(num_seconds(Unwrap(time) - Unwrap(prev_time))) <= 5

\* vec![vec![0; width as usize]; height as usize]
new_factors(width, height) == [r \in 1..height |-> [c \in 1..width |-> 0]]

\* factors[x][y] does not panic
in_table(f, x, y) == x >= 0 /\ x < Len(f) /\ y >= 0 /\ y < Len(f[1])

\* factors[x][y], 0 where the table has no such entry
count_at(f, x, y) == IF in_table(f, x, y) THEN f[x + 1][y + 1] ELSE 0

\* for c in a + 1..b, without a + 1
line_range_short(a, b) == (a + 2)..(b - 1)

\* for c in a + 1..b
line_range(a, b) == (a + 1)..(b - 1)

\* the pixels of the loop over curr_x: slope = (y2 - y1) / (x2 - x1)
along_x(x1, y1, x2, y2) ==
    {<<cx, Round(y1 * (x2 - x1) + (y2 - y1) * (cx - x1), x2 - x1)>> :
        cx \in line_range(x1, x2)}

\* the pixels of the loop over curr_y: slope = (x2 - x1) / (y2 - y1)
along_y(x1, y1, x2, y2) ==
    {<<Round(x1 * (y2 - y1) + (x2 - x1) * (cy - y1), y2 - y1), cy>> :
        cy \in line_range(y1, y2)}

\* the line stepping along x whatever the slope, unless x2 = x1
line_pixels_along_x(prev_x, prev_y, x, y) ==
    IF x # prev_x
    THEN IF prev_x >= x THEN along_x(x, y, prev_x, prev_y)
                        ELSE along_x(prev_x, prev_y, x, y)
    ELSE IF prev_y >= y THEN along_y(x, y, prev_x, prev_y)
                        ELSE along_y(prev_x, prev_y, x, y)

\* the pixels the line from (prev_x, prev_y) to (x, y) increments; the
\* pixels differ; a slope of +-inf (x2 = x1) is not <= 1
line_pixels(prev_x, prev_y, x, y) ==
    IF x # prev_x /\ abs(y - prev_y) <= abs(x - prev_x)
    THEN IF prev_x >= x THEN along_x(x, y, prev_x, prev_y)
                        ELSE along_x(prev_x, prev_y, x, y)
    ELSE IF prev_y >= y THEN along_y(x, y, prev_x, prev_y)
                        ELSE along_y(prev_x, prev_y, x, y)

\* factors[cx][cy] += 1 for every pixel of S
add_pixels(f, S) ==
    [r \in 1..Len(f) |->
        [c \in 1..Len(f[r]) |-> f[r][c] + (IF <<r - 1, c - 1>> \in S THEN 1 ELSE 0)]]

NoPrev == [x |-> None, y |-> None, time |-> None]

\* the same-pixel branch without prev_time = pt.time
on_same_pixel_keeping_time(f, pv, pt) ==
    [kind |-> "same", factors |-> f, prev |-> pv]

\* the same-pixel branch, counting the pixel as well
on_same_pixel_counting(f, pv, pt) ==
    [kind |-> "same", factors |-> add_pixels(f, {<<Unwrap(pv.x), Unwrap(pv.y)>>}),
     prev |-> [pv EXCEPT !.time = pt.time]]

\* if prev_x == x && prev_y == y { prev_time = pt.time; continue; }
on_same_pixel(f, pv, pt) ==
    [kind |-> "same", factors |-> f, prev |-> [pv EXCEPT !.time = pt.time]]

\* the line, if one is drawn, then the pixel itself; an index beyond the
\* table panics
on_new_pixel(f, pv, pt, x, y) ==
    LET line == IF IsSome(pv.x) /\ connects(pt.time, pv.time)
                THEN line_pixels(Unwrap(pv.x), Unwrap(pv.y), x, y) ELSE {}
    IN  IF \E q \in line \cup {<<x, y>>} : ~in_table(f, q[1], q[2])
        THEN [kind |-> "panic", factors |-> f, prev |-> pv]
        ELSE [kind |-> "plot",
              factors |-> add_pixels(add_pixels(f, line), {<<x, y>>}),
              prev |-> [x |-> Some(x), y |-> Some(y), time |-> pt.time]]

\* the body of for pt in v, after the two projections
loop_body(f, pv, pt, x, y, width, height) ==
    IF out_of_frame(x, y, width, height)
    THEN [kind |-> "discard", factors |-> f, prev |-> pv]
    ELSE IF IsSome(pv.x) /\ Unwrap(pv.x) = x /\ Unwrap(pv.y) = y
    THEN on_same_pixel(f, pv, pt)
    ELSE on_new_pixel(f, pv, pt, x, y)

(***************************************************************************)
(* heatmap.rs: overlay_image, normalisation and compositing.  An image is  *)
(* its rows from the top, a row its pixels from the left, a pixel its      *)
(* three channels.                                                         *)
(***************************************************************************)
img_width(img) == Len(img[1])
img_height(img) == Len(img)

\* for row in &factors { for &factor in row { .. } }: the entries in order
RECURSIVE flatten(_, _)
flatten(f, r) == IF r > Len(f) THEN <<>> ELSE f[r] \o flatten(f, r + 1)

over_one(c) == c > 1

\* sort_unstable: insertion of v into an ascending s
RECURSIVE insert_sorted(_, _)
insert_sorted(s, v) ==
    IF s = <<>> THEN <<v>>
    ELSE IF v <= Head(s) THEN <<v>> \o s
    ELSE <<Head(s)>> \o insert_sorted(Tail(s), v)

RECURSIVE sort_unstable(_)
sort_unstable(s) ==
    IF s = <<>> THEN <<>> ELSE insert_sorted(sort_unstable(Tail(s)), Head(s))

\* the counts above 1, ascending
sorted_counts(f) == sort_unstable(SelectSeq(flatten(f, 1), over_one))

\* sorted.len() / 4 * 3, as an index from 1
percentile_index(len) == (len \div 4) * 3 + 1

\* factor / f64::from(sorted[..]); sorted is not empty
single_step(factor, sorted) ==
    [n |-> factor.n, d |-> factor.d * sorted[percentile_index(Len(sorted))]]

\* f64::from(factor) * single_step
intensity_of(c, step) == [n |-> c * step.n, d |-> step.d]

\* if intensity > 0.0, with >= for >
shaded_always(i) == i.n >= 0

\* if intensity > 0.0
shaded(i) == i.n > 0

less(a, b) == a.n * b.d < b.n * a.d

\* f64::clamp with the upper bound left out
clamp_floor_only(v, lo, hi) == IF less(v, lo) THEN lo ELSE v

\* f64::clamp; lo <= hi
clamp(v, lo, hi) == IF less(v, lo) THEN lo ELSE IF less(hi, v) THEN hi ELSE v

One == [n |-> 1, d |-> 1]

\* intensity.clamp(min_alpha, 1.0)
alpha_of(i, min_alpha) == clamp(i, min_alpha, One)

\* color_a.mul_add(alpha, color_b * (1.0 - alpha)).clamp(0.0, 255.0).round() as u8
blend(color_a, color_b, alpha) ==
    LET v == clamp([n |-> color_a * alpha.n + color_b * (alpha.d - alpha.n),
                    d |-> alpha.d],
                   [n |-> 0, d |-> 1], [n |-> 255, d |-> 1])
    IN  Round(v.n, v.d)

\* the new pixel: the three channels
blend_pixel(track_color, map_data, alpha) ==
    [i \in 1..3 |-> blend(track_color[i], map_data[i], alpha)]

\* the entries of the table the compositing loop shades, as pixels
shaded_entries(f, step) ==
    {q \in (0..(Len(f) - 1)) \X (0..(Len(f[1]) - 1)) :
        shaded(intensity_of(f[q[1] + 1][q[2] + 1], step))}

\* the lines after the loops: "panic" for sorted[0] of an empty sorted, for
\* clamp with min_alpha > 1 and for get_pixel_mut beyond the image
compose(img, f, track_color, factor, min_alpha) ==
    LET with_sorted(sorted) ==
            IF sorted = <<>> THEN [kind |-> "panic", img |-> img]
            ELSE LET step == single_step(factor, sorted)
                     todo == shaded_entries(f, step)
                 IN  IF todo # {} /\ less(One, min_alpha)
                     THEN [kind |-> "panic", img |-> img]
                     ELSE IF \E q \in todo : q[1] >= img_width(img) \/ q[2] >= img_height(img)
                     THEN [kind |-> "panic", img |-> img]
                     ELSE [kind |-> "done",
                           img |-> [r \in 1..img_height(img) |->
                                     [c \in 1..img_width(img) |->
                                       IF <<c - 1, r - 1>> \in todo
                                       THEN blend_pixel(track_color, img[r][c],
                                                alpha_of(intensity_of(f[c][r], step), min_alpha))
                                       ELSE img[r][c]]]]
    IN  with_sorted(sorted_counts(f))

(***************************************************************************)
(* One call of overlay_image: the canvas, the projection and the options   *)
(* are fixed at the call, the samples are met one by one.                  *)
(***************************************************************************)
\* width and height of the canvases, a square one and one that is not
Canvases == {<<Side, Side>>, <<Side + 1, Side - 1>>}

\* the base image: every pixel differs from its neighbours
BasePixel(x, y) == <<(40 * x) % 256, (60 * y) % 256, 200>>
BaseImage(width, height) == [r \in 1..height |-> [c \in 1..width |-> BasePixel(c - 1, r - 1)]]

TrackColor == <<255, 0, 100>>

\* map_info.min is the north-west corner: scale.lat is negative
MapInfo ==
    [min |-> [lat |-> 20, lng |-> 10],
     scale |-> [lat |-> [n |-> -1, d |-> 2], lng |-> [n |-> 1, d |-> 2]]]

\* the sample kx half pixels east and ky half pixels south of map_info.min
At(kx, ky, time) == TrkPt(20 - ky, 10 + kx, time)

RenderTimes == {None, Some(0), Some(5000), Some(10500)}

\* positions in the frame of the square canvas (two of them on one pixel),
\* left of it and on its right edge; the narrower canvas has two of them on
\* its lower edge
RenderSamples ==
    {At(k[1], k[2], t) :
        k \in {<<1, 1>>, <<2, 2>>, <<8, 4>>, <<4, 8>>, <<2, 8>>,
               <<-1, 4>>, <<2 * (Side - 1), 6>>},
        t \in RenderTimes}

Factors == {[n |-> 3, d |-> 2]}
MinAlphas == {[n |-> 1, d |-> 4], [n |-> 7, d |-> 8]}

InitRender ==
    /\ type_filters = None /\ start = None /\ end = None
    /\ doc = NoDoc /\ res = None
    /\ stack = <<>> /\ run = "returned"
    /\ track_set = <<>> /\ parsed_ok = <<>> /\ skipped = FALSE
    /\ MainIdle
    /\ \E c \in Canvases : map_image = BaseImage(c[1], c[2])
    /\ base_image = map_image
    /\ render_in \in {Some([map_info |-> MapInfo, track_color |-> TrackColor,
                            factor |-> f, min_alpha |-> m]) :
                         f \in Factors, m \in MinAlphas}
    /\ factors = new_factors(img_width(map_image), img_height(map_image))
    /\ prev = NoPrev
    /\ hist = None
    /\ rphase = "drawing"
    /\ nsamples = 0

render_frame ==
    /\ UNCHANGED <<type_filters, start, end, doc, res>>
    /\ UNCHANGED batch_vars
    /\ UNCHANGED main_vars
    /\ UNCHANGED <<render_in, base_image>>

\* one iteration of for pt in v
Sample ==
    /\ rphase = "drawing"
    /\ nsamples < MaxPts
    /\ \E pt \in RenderSamples :
         LET info == Unwrap(render_in).map_info
             x == project(pt.center.lng, info.min.lng, info.scale.lng)
             y == project(pt.center.lat, info.min.lat, info.scale.lat)
             set(r) == /\ rphase' = IF r.kind = "panic" THEN "panic" ELSE "drawing"
                       /\ factors' = r.factors
                       /\ prev' = r.prev
         IN  /\ set(loop_body(factors, prev, pt, x, y,
                              img_width(map_image), img_height(map_image)))
             /\ hist' = Some([pt |-> pt, x |-> x, y |-> y,
                              prev |-> prev, factors |-> factors])
    /\ nsamples' = nsamples + 1
    /\ UNCHANGED map_image
    /\ render_frame

\* the next iteration of for v in trk_pts with prev_x, prev_y and prev_time
\* declared before the loop
NextActivityCarrying ==
    /\ rphase = "drawing"
    /\ IsSome(hist)
    /\ nsamples < MaxPts
    /\ prev' = prev
    /\ hist' = None
    /\ UNCHANGED <<factors, rphase, nsamples, map_image>>
    /\ render_frame

\* the next iteration of for v in trk_pts: no v is empty
NextActivity ==
    /\ rphase = "drawing"
    /\ IsSome(hist)
    /\ nsamples < MaxPts
    /\ prev' = NoPrev
    /\ hist' = None
    /\ UNCHANGED <<factors, rphase, nsamples, map_image>>
    /\ render_frame

\* the lines after the loops, to the return
Finish ==
    /\ rphase = "drawing"
    /\ IsSome(hist)
    /\ LET set(r) == /\ rphase' = r.kind
                     /\ map_image' = r.img
       IN  set(compose(map_image, factors, Unwrap(render_in).track_color,
                       Unwrap(render_in).factor, Unwrap(render_in).min_alpha))
    /\ hist' = None
    /\ UNCHANGED <<factors, prev, nsamples>>
    /\ render_frame

NextRender ==
    \/ Sample
    \/ NextActivity
    \/ Finish

SpecRender == InitRender /\ [][NextRender]_vars

(***************************************************************************)
(* One call of overlay_image on a single activity, the samples gone        *)
(* through kept in track_set: trk_pts as far as the loop has read it.      *)
(* The samples stand on pixel (1, 1), at two positions, or on pixel        *)
(* (4, 2), at 0 s, 6 s or 10 s.                                            *)
(***************************************************************************)
TrackSamples ==
    {At(k[1], k[2], t) : k \in {<<1, 1>>, <<2, 2>>, <<8, 4>>, <<-1, 4>>},
                         t \in {Some(0), Some(6000), Some(10000)}}

\* one iteration of for pt in v, v the one activity of trk_pts
TrackSample ==
    /\ rphase = "drawing"
    /\ nsamples < MaxPts
    /\ \E pt \in TrackSamples :
         LET info == Unwrap(render_in).map_info
             x == project(pt.center.lng, info.min.lng, info.scale.lng)
             y == project(pt.center.lat, info.min.lat, info.scale.lat)
             set(r) == /\ rphase' = IF r.kind = "panic" THEN "panic" ELSE "drawing"
                       /\ factors' = r.factors
                       /\ prev' = r.prev
         IN  /\ set(loop_body(factors, prev, pt, x, y,
                              img_width(map_image), img_height(map_image)))
             /\ hist' = Some([pt |-> pt, x |-> x, y |-> y,
                              prev |-> prev, factors |-> factors])
             /\ track_set' = IF track_set = <<>> THEN <<<<pt>>>>
                              ELSE <<Append(track_set[1], pt)>>
    /\ nsamples' = nsamples + 1
    /\ UNCHANGED <<type_filters, start, end, doc, res>>
    /\ UNCHANGED <<stack, run, parsed_ok, skipped>>
    /\ UNCHANGED main_vars
    /\ UNCHANGED <<render_in, base_image, map_image>>

NextTrack ==
    \/ TrackSample
    \/ Finish

SpecTrack == InitRender /\ [][NextTrack]_vars


(***************************************************************************)
(* The lines of overlay_image after the loops, from a count table that     *)
(* more samples than MaxPts leave behind: a sample far from the one before *)
(* and more than 5 s after it adds one to its own pixel and nothing else,  *)
(* so every table of counts on pixels inside the frame is left by some     *)
(* track set.  prev and the number of samples are not read after the loops.*)
(***************************************************************************)
\* pixels of the table that hold a count
MaxCounted == 4

\* pixels inside the frame of the smallest canvas
CountedPixels ==
    SubSeq(<<<<1, 1>>, <<2, 3>>, <<4, 2>>, <<3, 4>>, <<4, 4>>, <<2, 1>>>>, 1, MaxCounted)

Counts == {0, 1, 2, 3, 5}

\* the table with counts c[i] at CountedPixels[i] and 0 elsewhere
count_table(c, width, height) ==
    [r \in 1..height |-> [col \in 1..width |->
        IF \E i \in 1..MaxCounted : CountedPixels[i] = <<r - 1, col - 1>>
        THEN c[CHOOSE i \in 1..MaxCounted : CountedPixels[i] = <<r - 1, col - 1>>]
        ELSE 0]]

InitCompose ==
    /\ type_filters = None /\ start = None /\ end = None
    /\ doc = NoDoc /\ res = None
    /\ stack = <<>> /\ run = "returned"
    /\ track_set = <<>> /\ parsed_ok = <<>> /\ skipped = FALSE
    /\ MainIdle
    /\ map_image = BaseImage(Side, Side)
    /\ base_image = map_image
    /\ render_in \in {Some([map_info |-> MapInfo, track_color |-> TrackColor,
                            factor |-> f, min_alpha |-> m]) :
                         f \in Factors, m \in MinAlphas}
    /\ \E c \in [1..MaxCounted -> Counts] : factors = count_table(c, Side, Side)
    /\ prev = NoPrev
    /\ hist = None
    /\ rphase = "composing"
    /\ nsamples = 0

\* the lines after the loops, to the return
Compose ==
    /\ rphase = "composing"
    /\ LET set(r) == /\ rphase' = r.kind
                     /\ map_image' = r.img
       IN  set(compose(map_image, factors, Unwrap(render_in).track_color,
                       Unwrap(render_in).factor, Unwrap(render_in).min_alpha))
    /\ UNCHANGED <<factors, prev, hist, nsamples>>
    /\ render_frame

NextCompose == Compose

SpecCompose == InitCompose /\ [][NextCompose]_vars


(***************************************************************************)
(* heatmap.rs: haversine, destination, calculate_map.  Degrees are whole   *)
(* numbers, radians and the values of sin, cos and sqrt are in thousandths,*)
(* distances are in metres.  sin, cos, asin and atan2 are tabulated at     *)
(* every 5 degrees (pi / 36) and read at the nearest entry; every product  *)
(* is rounded to the nearest thousandth, as f64 rounds each to the nearest *)
(* double.  A quotient is kept as the pair [n, d], so that x / 0.0 stays   *)
(* apart from every finite value.                                          *)
(***************************************************************************)
\* thousandths in one
Milli == 1000
\* std::f64::consts::PI in thousandths
Pi == 3142
\* const R: f64 = 6371e3
R == 6371000

\* f64::to_radians
to_radians(deg) == Round(deg * Pi, 180)
\* f64::to_degrees
to_degrees(rad) == Round(rad * 180, Pi)
\* the multiple of pi / 36 nearest to an angle
step_of(rad) == Round(rad * 36, Pi)
\* the angle of k steps of pi / 36
rad_of(k) == Round(k * Pi, 36)

\* sin at 0, 5, .. 90 degrees
SinTable ==
    <<0, 87, 174, 259, 342, 423, 500, 574, 643, 707,
      766, 819, 866, 906, 940, 966, 985, 996, 1000>>

\* sin of k steps of pi / 36
sin_step(k) ==
    LET m == abs(k) % 72
        v == IF m <= 18 THEN SinTable[m + 1]
             ELSE IF m <= 36 THEN SinTable[36 - m + 1]
             ELSE IF m <= 54 THEN -SinTable[m - 36 + 1]
             ELSE -SinTable[72 - m + 1]
    IN  IF k < 0 THEN -v ELSE v

\* f64::sin, f64::cos
sin(x) == sin_step(step_of(x))
cos(x) == sin_step(18 - step_of(x))

\* a * b of two values in thousandths
mul(a, b) == Round(a * b, Milli)

RECURSIVE isqrt_in(_, _, _)
\* the largest r in lo..hi with r * r <= n
isqrt_in(n, lo, hi) ==
    IF lo >= hi THEN lo
    ELSE LET mid == (lo + hi + 1) \div 2
         IN  IF mid * mid <= n THEN isqrt_in(n, mid, hi) ELSE isqrt_in(n, lo, mid - 1)

\* the integer nearest to the square root of n, n below 2^30
isqrt(n) ==
    LET r == isqrt_in(n, 0, 32767)
    IN  IF n - r * r > r THEN r + 1 ELSE r

\* f64::sqrt of a value in thousandths
sqrt(v) == isqrt(v * Milli)

RECURSIVE best_step(_, _, _, _)
\* the step, among b and k..hi, of the greatest score, the nearest to 0 among equals
best_step(score, k, hi, b) ==
    IF k > hi THEN b
    ELSE IF score[k] > score[b] \/ (score[k] = score[b] /\ abs(k) < abs(b))
         THEN best_step(score, k + 1, hi, k)
    ELSE best_step(score, k + 1, hi, b)

\* f64::asin, of a value in -1 ..= 1
asin(v) ==
    rad_of(best_step([k \in (-18)..18 |-> -abs(sin_step(k) - v)], -18, 18, 0))

\* f64::atan2: the direction of (x, y); atan2(0, x) is 0 for x >= 0
atan2(y, x) ==
    IF y = 0 /\ x >= 0 THEN 0
    ELSE rad_of(best_step([k \in (-35)..36 |-> x * sin_step(18 - k) + y * sin_step(k)],
                          -35, 36, 0))

\* f64::hypot, of two distances in metres, to the kilometre
hypot(a, b) == Milli * isqrt((a \div Milli) * (a \div Milli) + (b \div Milli) * (b \div Milli))

\* haversine with the cosine of p1's latitude taken twice
haversine_one_cos(p1, p2) ==
    LET from_a(a) == (R \div Milli) * (2 * atan2(sqrt(a), sqrt(Milli - a)))
        from_sin(lat_sin, lng_sin, lat_rad_1, lat_rad_2) ==
            from_a(mul(lat_sin, lat_sin)
                       + mul(mul(mul(cos(lat_rad_1), cos(lat_rad_1)), lng_sin), lng_sin))
        from_delta(lat_delta, lng_delta) ==
            from_sin(sin(Round(lat_delta, 2)), sin(Round(lng_delta, 2)),
                     to_radians(p1.lat), to_radians(p2.lat))
    IN  from_delta(to_radians(p2.lat - p1.lat), to_radians(p2.lng - p1.lng))

\* pub fn haversine(p1: &Point, p2: &Point) -> f64
haversine(p1, p2) ==
    LET from_a(a) == (R \div Milli) * (2 * atan2(sqrt(a), sqrt(Milli - a)))
        from_sin(lat_sin, lng_sin, lat_rad_1, lat_rad_2) ==
            from_a(mul(lat_sin, lat_sin)
                       + mul(mul(mul(cos(lat_rad_1), cos(lat_rad_2)), lng_sin), lng_sin))
        from_delta(lat_delta, lng_delta) ==
            from_sin(sin(Round(lat_delta, 2)), sin(Round(lng_delta, 2)),
                     to_radians(p1.lat), to_radians(p2.lat))
    IN  from_delta(to_radians(p2.lat - p1.lat), to_radians(p2.lng - p1.lng))

\* pub fn destination(p: &Point, bearing: f64, distance: f64) -> Point
destination(p, bearing, distance) ==
    LET to_point(lat, lng_delta) == [lat |-> lat, lng |-> p.lng + to_degrees(lng_delta)]
        from_lat(lat, b_rad, lat_rad_sin, lat_rad_cos, ang_dist_sin, ang_dist_cos) ==
            to_point(lat, atan2(mul(mul(sin(b_rad), ang_dist_sin), lat_rad_cos),
                                ang_dist_cos - mul(lat_rad_sin, sin(to_radians(lat)))))
        from_sin_cos(b_rad, lat_rad_sin, lat_rad_cos, ang_dist_sin, ang_dist_cos) ==
            from_lat(to_degrees(asin(mul(lat_rad_sin, ang_dist_cos)
                                         + mul(mul(lat_rad_cos, ang_dist_sin), cos(b_rad)))),
                     b_rad, lat_rad_sin, lat_rad_cos, ang_dist_sin, ang_dist_cos)
        from_rad(ang_dist, lat_rad, b_rad) ==
            from_sin_cos(b_rad, sin(lat_rad), cos(lat_rad), sin(ang_dist), cos(ang_dist))
    IN  from_rad(Round(distance, R \div Milli), to_radians(p.lat), to_radians(bearing))

\* a quotient of two f64 values; d = 0 is an infinity or NaN
quot(n, d) == [n |-> n, d |-> d]

RECURSIVE floor_log2(_)
\* the whole part of log2 of q, q >= 1
floor_log2(q) == IF q < 2 THEN 0 ELSE 1 + floor_log2(q \div 2)

\* (x / meters_per_pixel).ln() / LN_2 - 7.0, to the whole level below; not
\* finite when meters_per_pixel or x is 0
zoom_of(x, meters_per_pixel) ==
    IF meters_per_pixel = 0 \/ x = 0 THEN [finite |-> FALSE, level |-> 0]
    ELSE IF x < meters_per_pixel
         THEN [finite |-> TRUE, level |-> -floor_log2(meters_per_pixel \div x) - 8]
    ELSE [finite |-> TRUE, level |-> floor_log2(x \div meters_per_pixel) - 7]

\* calculate_map up to the new min/max points
padded_window(pixels, min, max) ==
    LET from_diagonal(center, zoom, diagonal) ==
            [center |-> center, zoom |-> zoom,
             min |-> destination(center, 315, diagonal),
             max |-> destination(center, 135, diagonal)]
        from_edge(center, zoom, dist_to_edge) ==
            from_diagonal(center, zoom, hypot(dist_to_edge, dist_to_edge))
        from_pixel(center, meters_per_pixel) ==
            from_edge(center,
                      zoom_of(Round(10018755, Milli) * cos(to_radians(center.lat)),
                              meters_per_pixel),
                      Round(meters_per_pixel * pixels, 2))
        from_meters(center, map_width_meters, map_height_meters) ==
            from_pixel(center,
                       Round(f64_max(map_height_meters, map_width_meters) * 11, pixels * 10))
        from_center(lat, lng) ==
            from_meters([lat |-> lat, lng |-> lng],
                        haversine([lat |-> lat, lng |-> min.lng], [lat |-> lat, lng |-> max.lng]),
                        haversine([lat |-> min.lat, lng |-> lng], [lat |-> max.lat, lng |-> lng]))
    IN  from_center(min.lat + Round(max.lat - min.lat, 2), min.lng + Round(max.lng - min.lng, 2))

\* impl std::ops::Mul<f64> for Point, on a pair of quotients
point_mul(p, factor) ==
    [lat |-> quot(p.lat.n * factor, p.lat.d), lng |-> quot(p.lng.n * factor, p.lng.d)]

\* calculate_map returning the scale without the multiplier
calculate_map_unscaled(pixels, min, max, scale_multiplier) ==
    LET from_window(w) ==
            [center |-> w.center, min |-> w.min, zoom |-> w.zoom,
             scale |-> [lat |-> quot(pixels, w.max.lat - w.min.lat),
                        lng |-> quot(pixels, w.max.lng - w.min.lng)]]
    IN  from_window(padded_window(pixels, min, max))

\* pub fn calculate_map(pixels, min, max, scale_multiplier) -> MapInfo
calculate_map(pixels, min, max, scale_multiplier) ==
    LET from_window(w) ==
            [center |-> w.center, min |-> w.min, zoom |-> w.zoom,
             scale |-> point_mul([lat |-> quot(pixels, w.max.lat - w.min.lat),
                                  lng |-> quot(pixels, w.max.lng - w.min.lng)],
                                 scale_multiplier)]
    IN  from_window(padded_window(pixels, min, max))

(***************************************************************************)
(* Calls of haversine and calculate_map.  doc is the call and res what it  *)
(* returned.                                                               *)
(***************************************************************************)
\* the coordinates drawn are 20 i degrees north and 30 j degrees east, for
\* i and j up to GeoSpan either way
GeoSpan == 2

GeoPoints == {[lat |-> 20 * i, lng |-> 30 * j] : i, j \in (-GeoSpan)..GeoSpan}

\* min and max as heatmap::min_max or the command line leave them
GeoBoxes == {b \in GeoPoints \X GeoPoints : b[1].lat <= b[2].lat /\ b[1].lng <= b[2].lng}

PixelSizes == {256, 1280}
ScaleMultipliers == {1, 2}

InitGeo ==
    /\ type_filters = None /\ start = None /\ end = None
    /\ doc = NoDoc
    /\ res = None
    /\ stack = <<>>
    /\ run = "loading"
    /\ track_set = <<>>
    /\ parsed_ok = <<>>
    /\ skipped = FALSE
    /\ MainIdle
    /\ RenderIdle

geo_frame ==
    /\ UNCHANGED <<type_filters, start, end>>
    /\ UNCHANGED batch_vars
    /\ UNCHANGED <<main_vars, render_vars>>

\* heatmap::haversine(&p1, &p2)
CallHaversine ==
    /\ doc = NoDoc
    /\ \E p1, p2 \in GeoPoints :
         /\ doc' = [fmt |-> "haversine", p1 |-> p1, p2 |-> p2]
         /\ res' = Some(haversine(p1, p2))
    /\ geo_frame

\* heatmap::calculate_map(pixels, &min, &max, scale_multiplier)
CallCalculateMap ==
    /\ doc = NoDoc
    /\ \E b \in GeoBoxes, pixels \in PixelSizes, m \in ScaleMultipliers :
         /\ doc' = [fmt |-> "calculate_map", pixels |-> pixels,
                    min |-> b[1], max |-> b[2], scale_multiplier |-> m]
         /\ res' = Some(calculate_map(pixels, b[1], b[2], m))
    /\ geo_frame

NextGeo ==
    \/ CallHaversine
    \/ CallCalculateMap

SpecGeo == InitGeo /\ [][NextGeo]_vars


(***************************************************************************)
(* What a document says, read off its description and not off the parse.   *)
(***************************************************************************)
Parsed == doc # NoDoc
Result == Unwrap(res)
IsGpx == doc.fmt = "gpx"
IsTcx == doc.fmt = "tcx"
NoFilters == type_filters = None /\ start = None /\ end = None

\* record kinds: complete records, records lacking a coordinate, records
\* with an unparsable token, containers closed and reopened, input ending
ValidKinds == {"full", "notime"}
IncompleteKinds == {"nolat", "nolon", "nopos"}
BadTokenKinds == {"badlat", "badtime"}
StrayKinds == {"outtrk", "outseg"}
SplitKinds == {"newtrack", "newlap", "newact"}
EofKinds == {"eof_trkpt", "eof_trkseg", "eof_trk",
             "eof_trackpoint", "eof_track", "eof_lap", "eof_activity"}

AllKindsIn(d, K) == \A i \in 1..Len(d.recs) : d.recs[i] \in K
SomeKindIn(d, K) == \E i \in 1..Len(d.recs) : d.recs[i] \in K

\* the sample record i stands for
SampleOf(kind, i) ==
    [center |-> [lat |-> LatVal(i), lng |-> LngVal(i)],
     time |-> IF kind \in {"notime", "empty"} THEN None ELSE Some(TimeVal(i))]

\* the samples of the records of d whose kind is in K, in source order
RECURSIVE SamplesFrom(_, _, _)
SamplesFrom(d, K, i) ==
    IF i > Len(d.recs) THEN <<>>
    ELSE (IF d.recs[i] \in K THEN <<SampleOf(d.recs[i], i)>> ELSE <<>>)
         \o SamplesFrom(d, K, i + 1)

ValidSamples(d) == SamplesFrom(d, ValidKinds, 1)

\* the header time of the document, when it is a readable one
HeaderTimeVal(d) ==
    CASE d.time = Some("T1") -> Some(1)
      [] d.time = Some("T2") -> Some(2)
      [] d.time = Some("T3") -> Some(3)
      [] OTHER -> None

WindowSet == IsSome(start) \/ IsSome(end)

HeaderOutOfWindow(d) ==
    /\ WindowSet
    /\ IsSome(HeaderTimeVal(d))
    /\ \/ IsSome(start) /\ Unwrap(HeaderTimeVal(d)) < Unwrap(start)
       \/ IsSome(end) /\ Unwrap(HeaderTimeVal(d)) > Unwrap(end)

HeaderTimeUnreadable(d) == WindowSet /\ d.time = Some(BadTok)

\* the type token each kind of activity has in each format
KindToken(fmt, kind) ==
    CASE fmt = "gpx" /\ kind = "Bike" -> "1"
      [] fmt = "gpx" /\ kind = "Run" -> "9"
      [] fmt = "gpx" /\ kind = "Walk" -> "10"
      [] fmt = "tcx" /\ kind = "Bike" -> "Biking"
      [] fmt = "tcx" /\ kind = "Run" -> "Running"
      [] fmt = "tcx" /\ kind = "Walk" -> "Other"

TypeNotInFilter(d) ==
    /\ IsSome(type_filters)
    /\ IsSome(d.type)
    /\ \A i \in 1..Len(Unwrap(type_filters)) :
          KindToken(d.fmt, Unwrap(type_filters)[i]) # Unwrap(d.type)

\* the header neither discards the activity nor stops the parse
HeaderPasses(d) ==
    ~HeaderOutOfWindow(d) /\ ~HeaderTimeUnreadable(d) /\ ~TypeNotInFilter(d)

\* C1: a GPX document of N complete trkpt records (start tag, children,
\* end tag; with or without a time) inside trk/trkseg, parsed with no
\* filters, returns exactly the N samples of its records, in source order,
\* each with the latitude, longitude and timestamp of its record.
C1_GpxAllSamplesInOrder ==
    (Parsed /\ IsGpx /\ NoFilters /\ AllKindsIn(doc, ValidKinds))
        => Result = OkPts(ValidSamples(doc))

C1_Witness ==
    /\ Parsed /\ IsGpx /\ NoFilters
    /\ doc.recs = <<"full", "notime">>
    /\ Result.kind = "Ok" /\ Len(Result.pts) = 2
    /\ Result.pts[1].time = Some(11) /\ Result.pts[2].time = None

\* C2: a TCX document of N complete Trackpoint records, parsed with no
\* filters, returns exactly the N samples in source order, however the
\* records are spread over Track, Lap and Activity containers.
C2_TcxAllSamplesAcrossContainers ==
    (Parsed /\ IsTcx /\ NoFilters /\ AllKindsIn(doc, ValidKinds \cup SplitKinds))
        => Result = OkPts(ValidSamples(doc))

\* the stray trkpt is the first thing in the document that stops the parse
FirstStray(d, j) ==
    /\ d.recs[j] \in StrayKinds
    /\ \A i \in 1..(j - 1) : d.recs[i] \in ValidKinds \cup IncompleteKinds \cup {"empty"}

\* C3: a GPX document in which the parser comes to a trkpt start element
\* while no trk is open, or while no trkseg is open, returns an error, and
\* the samples collected before that element are not returned.
C3_GpxStrayTrkptIsError ==
    (Parsed /\ IsGpx /\ HeaderPasses(doc)
       /\ \E j \in 1..Len(doc.recs) : FirstStray(doc, j))
        => Result = Err

C3_Witness ==
    /\ Parsed /\ IsGpx /\ doc.recs = <<"full", "outseg">>
    /\ Result = Err

\* C4: in both parsers a record that lacks its latitude or its longitude is
\* dropped and the records after it are still parsed: a document of complete
\* records interleaved with such records returns the samples of exactly the
\* complete records, in source order, and no error.
C4_IncompleteRecordDropped ==
    (Parsed /\ HeaderPasses(doc) /\ AllKindsIn(doc, ValidKinds \cup IncompleteKinds))
        => Result = OkPts(ValidSamples(doc))

C4_Witness ==
    /\ Parsed /\ IsTcx /\ doc.recs = <<"nolat", "full">>
    /\ Result = OkPts(<<SampleOf("full", 2)>>)

\* C5: with a non-empty activity filter and a document whose declared type
\* is not in the filter, the parse returns Ok with no samples, whatever
\* follows the type declaration (stray records, unparsable tokens, input
\* that ends early).
C5_TypeMismatchIsEmpty ==
    (Parsed /\ TypeNotInFilter(doc) /\ ~HeaderTimeUnreadable(doc))
        => Result = OkPts(<<>>)

C5_Witness ==
    /\ Parsed /\ IsGpx /\ TypeNotInFilter(doc)
    /\ SomeKindIn(doc, StrayKinds) /\ SomeKindIn(doc, BadTokenKinds)
    /\ Result = OkPts(<<>>)

\* C6: with a start and/or end bound and a header start time t (GPX metadata
\* time, TCX Lap StartTime): if t < start or t > end no sample of the
\* activity is in the result; if start <= t <= end, both bounds inclusive,
\* all its samples are.
C6_HeaderTimeWindow ==
    (Parsed /\ WindowSet /\ IsSome(HeaderTimeVal(doc)))
        => /\ HeaderOutOfWindow(doc)
                => /\ Result.kind # "Panic"
                   /\ Result.kind = "Ok" => Result.pts = <<>>
                   /\ ~SomeKindIn(doc, EofKinds) => Result = OkPts(<<>>)
           /\ (~HeaderOutOfWindow(doc) /\ ~TypeNotInFilter(doc)
                  /\ AllKindsIn(doc, ValidKinds))
                => Result = OkPts(ValidSamples(doc))

C6_Witness ==
    /\ Parsed /\ start = Some(2) /\ end = Some(2) /\ doc.time = Some("T2")
    /\ doc.recs = <<"full", "full">>
    /\ Result.kind = "Ok" /\ Len(Result.pts) = 2

\* C7: in both parsers an unparsable coordinate token or an unparsable
\* timestamp token ends the parse of the document with an error value: no
\* samples, the record neither dropped nor kept without its timestamp, and
\* no abort of the process.
C7_BadTokenIsError ==
    (Parsed /\ HeaderPasses(doc) /\ SomeKindIn(doc, BadTokenKinds)
       /\ AllKindsIn(doc, ValidKinds \cup BadTokenKinds))
        => Result = Err

\* the input ends at record j and nothing before it stops the parse
FirstEof(d, j) ==
    /\ d.recs[j] \in EofKinds
    /\ \A i \in 1..(j - 1) : d.recs[i] \in ValidKinds

\* C8: if the input ends while a container element is still open (GPX trk,
\* trkseg or trkpt; TCX Activity, Lap, Track or Trackpoint) the parse returns
\* an error and not the samples collected so far.
C8_TruncatedIsError ==
    (Parsed /\ HeaderPasses(doc) /\ \E j \in 1..Len(doc.recs) : FirstEof(doc, j))
        => Result = Err


\* C9: no failure on one input (a file that cannot be read, a directory
\* that cannot be listed, a document that fails to parse, an unparsable
\* number) aborts the batch, and the returned TrackSet holds the samples of
\* every file that parsed to at least one sample.
C9_FailureNeverAbortsBatch ==
    /\ run # "aborted"
    /\ run = "returned" => track_set = parsed_ok

\* C10: the TrackSet the dispatcher builds and returns holds no empty inner
\* sequence, in the call from main and in the calls made for directories.
C10_NoEmptyActivity ==
    /\ \A k \in 1..Len(stack) :
          \A i \in 1..Len(stack[k].trk_pts) : stack[k].trk_pts[i] # <<>>
    /\ \A i \in 1..Len(track_set) : track_set[i] # <<>>

C10_Witness ==
    /\ run = "returned"
    /\ skipped
    /\ Len(track_set) = 2

(***************************************************************************)
(* main after loading, and min_max.                                        *)
(***************************************************************************)
\* the calls main has made so far include f
Called(f) == \E i \in 1..Len(steps) : steps[i] = f

\* C11: whenever get_pts_from_files returned an empty TrackSet the run ends
\* with process::exit(2) and none of the later steps is executed: no
\* min_max, no --box reduction, no calculate_map, no image fetch, no
\* overlay_image, no save.
C11_EmptyTrackSetStopsRun ==
    (track_set = <<>> /\ pc \notin {"idle", "loaded"})
        => (pc = "exit2" /\ steps = <<>> /\ box = None)

C11_Witness == track_set = <<>> /\ pc = "exit2" /\ IsSome(corners)

\* the --box option holds four numbers with max_lat <= min_lat or
\* max_lng <= min_lng
NonPositiveBox ==
    /\ IsSome(corners)
    /\ Len(Unwrap(corners)) = 4
    /\ \A i \in 1..4 : ParseF64(Unwrap(corners)[i]).ok
    /\ \/ ParseF64(Unwrap(corners)[1]).v <= ParseF64(Unwrap(corners)[3]).v
       \/ ParseF64(Unwrap(corners)[2]).v <= ParseF64(Unwrap(corners)[4]).v

\* C12: with a --box override whose latitude extent or longitude extent is
\* not positive the run stops with a failure exit and calculate_map is never
\* called.
C12_NonPositiveBoxStopsRun ==
    NonPositiveBox
        => /\ pc \in {"loaded", "box", "exit1", "exit2"}
           /\ ~Called("calculate_map")
           /\ box = None

C12_Witness ==
    /\ NonPositiveBox /\ track_set # <<>> /\ pc = "exit1"
    /\ Unwrap(corners)[1] = Unwrap(corners)[3]
    /\ ParseF64(Unwrap(corners)[2]).v > ParseF64(Unwrap(corners)[4]).v

\* the latitudes and the longitudes of all samples of a TrackSet
LatsOf(ts) == {ts[a][i].center.lat : <<a, i>> \in {<<a, i>> \in (1..Len(ts)) \X (1..MaxSamples) : i <= Len(ts[a])}}
LngsOf(ts) == {ts[a][i].center.lng : <<a, i>> \in {<<a, i>> \in (1..Len(ts)) \X (1..MaxSamples) : i <= Len(ts[a])}}
SetMin(S) == CHOOSE m \in S : \A x \in S : m <= x
SetMax(S) == CHOOSE m \in S : \A x \in S : m >= x

\* C13: for every non-empty TrackSet min_max returns as its first
\* coordinate the smallest latitude and the smallest longitude over all
\* samples and as its second the largest latitude and the largest longitude,
\* each axis on its own; for a single sample both are that sample's position.
\* It fails on a sample beyond the range of the initial values of the fold.
C13_MinMaxIsBoundingBox ==
    (pc = "map" /\ corners = None)
        => box = Some([min |-> [lat |-> SetMin(LatsOf(track_set)),
                                lng |-> SetMin(LngsOf(track_set))],
                       max |-> [lat |-> SetMax(LatsOf(track_set)),
                                lng |-> SetMax(LngsOf(track_set))]])

(***************************************************************************)
(* overlay_image.  hist holds the sample of the last iteration, its pixel  *)
(* and the table and the remembered pixel and time as they were before it. *)
(***************************************************************************)
\* the last step was an iteration of the sample loop
Stepped == IsSome(hist)
Last == Unwrap(hist)
Width == img_width(map_image)
Height == img_height(map_image)

\* C14: a sample whose pixel has x < 1, x > width - 2, y < 1 or
\* y > height - 2 is discarded: the iteration changes no count, draws no line
\* to the pixel, and leaves the remembered pixel and the remembered time as
\* they were, so that the pixel is no endpoint of a later line either.
C14_EdgeSampleIsDiscarded ==
    (/\ Stepped
     /\ \/ Last.x < 1 \/ Last.x > Width - 2
        \/ Last.y < 1 \/ Last.y > Height - 2)
        => (factors = Last.factors /\ prev = Last.prev /\ rphase = "drawing")

C14_Witness ==
    /\ Stepped
    /\ Last.x = Width - 1 /\ Last.y \in 1..(Height - 2)
    /\ IsSome(Last.prev.x)
    /\ Last.pt.time = Some(5000) /\ Last.prev.time = Some(0)
    /\ factors = Last.factors /\ prev = Last.prev

\* the sample of the last iteration is plotted: its pixel is inside the frame
\* and inside the table of height rows of width counts, which factors[x][y]
\* reads with x for the row (every pixel of the frame is, when width = height)
Plotted ==
    /\ Stepped
    /\ Last.x >= 1 /\ Last.x <= Width - 2 /\ Last.y >= 1 /\ Last.y <= Height - 2
    /\ Last.x < Height /\ Last.y < Width

\* a sample of the same activity was plotted before it
HasPrev == IsSome(Last.prev.x)
PrevPixel == <<Unwrap(Last.prev.x), Unwrap(Last.prev.y)>>
ThisPixel == <<Last.x, Last.y>>
SamePixel == HasPrev /\ PrevPixel = ThisPixel
BothTimed == IsSome(Last.pt.time) /\ IsSome(Last.prev.time)
\* the time between the two samples, in milliseconds
GapMs == abs(Unwrap(Last.pt.time) - Unwrap(Last.prev.time))

\* the table before the iteration with one more at pixel q
OneMoreAt(q) == [Last.factors EXCEPT ![q[1] + 1][q[2] + 1] = @ + 1]

\* the pixels whose count the iteration changed
Changed ==
    {q \in (0..(Len(factors) - 1)) \X (0..(Len(factors[1]) - 1)) :
        factors[q[1] + 1][q[2] + 1] # Last.factors[q[1] + 1][q[2] + 1]}

\* the distance of two pixels in steps of the 8-neighbourhood
Distance(p, q) ==
    IF abs(p[1] - q[1]) >= abs(p[2] - q[2]) THEN abs(p[1] - q[1]) ELSE abs(p[2] - q[2])

\* the pixels of S reached from the set From through neighbours in S
RECURSIVE Reach(_, _)
Reach(S, From) ==
    LET more == {q \in S \ From : \E p \in From : Distance(p, q) = 1}
    IN  IF more = {} THEN From ELSE Reach(S, From \cup more)

\* S is a contiguous run from p to q
JoinedRun(S, p, q) == p \in S /\ q \in S /\ Reach(S, {p}) = S

\* C15: two consecutive plotted samples of an activity, both with a
\* timestamp, more than 5 seconds apart, on different pixels: the second
\* iteration draws no line, it increments the count of its own pixel and
\* changes no other count.  It fails for a gap of 5.5 seconds.
C15_NoLineAcrossGap ==
    (Plotted /\ HasPrev /\ ~SamePixel /\ BothTimed /\ GapMs > 5000)
        => (rphase = "drawing" /\ factors = OneMoreAt(ThisPixel))

C17_LineIsContiguousRun ==
    (/\ Plotted /\ HasPrev /\ BothTimed /\ GapMs <= 5000
     /\ Distance(PrevPixel, ThisPixel) >= 2)
        => /\ rphase = "drawing"
           /\ JoinedRun(Changed \cup {PrevPixel}, PrevPixel, ThisPixel)
           /\ Cardinality(Changed \cup {PrevPixel}) >= Distance(PrevPixel, ThisPixel)

C17_Witness ==
    /\ Plotted /\ HasPrev /\ BothTimed /\ GapMs = 5000
    /\ PrevPixel = <<4, 2>> /\ ThisPixel = <<1, 1>>
    /\ Changed = {<<1, 1>>, <<2, 1>>, <<3, 2>>}

\* C18, as claimed: a sample on the pixel of the sample plotted before it
\* increments the count of that pixel by one and changes no other count, and
\* every sample inside the frame increments the count of its own pixel by
\* one.
C18_EverySampleCounts ==
    Plotted
        => /\ rphase = "drawing"
           /\ count_at(factors, Last.x, Last.y) = count_at(Last.factors, Last.x, Last.y) + 1
           /\ SamePixel => factors = OneMoreAt(ThisPixel)

\* C18, amended: a sample on the pixel of the sample plotted before it
\* changes no count and draws no line, only the remembered time becomes its
\* time; every other plotted sample increments the count of its own pixel by
\* exactly one, whether or not a line is drawn.
C18_RepeatedPixelNotCounted ==
    Plotted
        => /\ rphase = "drawing"
           /\ SamePixel => /\ factors = Last.factors
                           /\ prev = [Last.prev EXCEPT !.time = Last.pt.time]
           /\ ~SamePixel =>
                 count_at(factors, Last.x, Last.y) = count_at(Last.factors, Last.x, Last.y) + 1

C18_Witness ==
    /\ Plotted /\ SamePixel
    /\ Last.pt.center # At(1, 1, None).center
    /\ Last.pt.time # Last.prev.time
    /\ factors = Last.factors
    /\ count_at(factors, Last.x, Last.y) = 1

\* the pixels of the canvas
Pixels == (0..(Width - 1)) \X (0..(Height - 1))
\* the visitation count of a pixel, its colour on the canvas and in the base
\* image
CountOf(q) == count_at(factors, q[1], q[2])
ColourOf(q) == map_image[q[2] + 1][q[1] + 1]
BaseOf(q) == base_image[q[2] + 1][q[1] + 1]

\* step, the intensity factor over the normalisation value
Step == single_step(Unwrap(render_in).factor, sorted_counts(factors))
MinAlpha == Unwrap(render_in).min_alpha
\* count * step as a fraction, and its value clamped to [min_alpha, 1]
Intensity(q) == [n |-> CountOf(q) * Step.n, d |-> Step.d]
Alpha(q) ==
    IF Intensity(q).n * MinAlpha.d < MinAlpha.n * Intensity(q).d THEN MinAlpha
    ELSE IF Intensity(q).n > Intensity(q).d THEN [n |-> 1, d |-> 1]
    ELSE Intensity(q)

\* v lies between a and b
Between(v, a, b) == (a <= v /\ v <= b) \/ (b <= v /\ v <= a)

\* C19: when render has returned, every pixel with a count above zero is
\* blended with alpha = clamp(count * step, min_alpha, 1.0), which is at least
\* min_alpha and at most 1; each channel is round(color * alpha + existing *
\* (1 - alpha)), lies in 0..255 and between the existing value and the value
\* of the track colour, and is the value of the track colour when
\* count * step >= 1.
C19_BlendIsClampedInterpolation ==
    rphase = "done" =>
        \A q \in Pixels : CountOf(q) > 0 =>
            /\ MinAlpha.n * Alpha(q).d <= Alpha(q).n * MinAlpha.d
            /\ Alpha(q).n <= Alpha(q).d
            /\ \A i \in 1..3 :
                /\ ColourOf(q)[i] =
                       Round(TrackColor[i] * Alpha(q).n
                                 + BaseOf(q)[i] * (Alpha(q).d - Alpha(q).n),
                             Alpha(q).d)
                /\ ColourOf(q)[i] \in 0..255
                /\ Between(ColourOf(q)[i], BaseOf(q)[i], TrackColor[i])
                /\ Intensity(q).n >= Intensity(q).d => ColourOf(q)[i] = TrackColor[i]

C19_Witness ==
    /\ rphase = "done"
    /\ \E q \in Pixels : Intensity(q).n > Intensity(q).d /\ ColourOf(q) = TrackColor
    /\ \E q \in Pixels : CountOf(q) > 0 /\ Alpha(q) = MinAlpha /\ Intensity(q) # MinAlpha
    /\ \E q \in Pixels : CountOf(q) > 0 /\ ColourOf(q) \notin {TrackColor, BaseOf(q)}

\* C20: when render has returned, every pixel of the canvas with a count of
\* zero has the three channels it had in the base image.
C20_UnvisitedPixelsUntouched ==
    rphase = "done" =>
        \A q \in Pixels : CountOf(q) = 0 => ColourOf(q) = BaseOf(q)

C20_Witness ==
    /\ rphase = "done"
    /\ \E q \in Pixels : CountOf(q) = 0 /\ ColourOf(q) = BaseOf(q)
    /\ \E q \in Pixels : CountOf(q) > 0 /\ ColourOf(q) # BaseOf(q)

\* the loops are through and the lines after them have been executed, to the
\* return or to a panic
AfterLoops == rphase \in {"done", "panic"} /\ ~Stepped

\* no pixel has a count above 1
NoneAboveOne == \A q \in Pixels : CountOf(q) <= 1

\* C21: when no pixel has a count above 1 (a single sample inside the frame,
\* or samples on the edges only) overlay_image still returns, and every pixel
\* with a count above zero is blended with alpha = min_alpha; it does not
\* panic.  It fails for a single sample inside the frame.
C21_SparseRenderCompletes ==
    (AfterLoops /\ NoneAboveOne)
        => /\ rphase = "done"
           /\ \A q \in Pixels : CountOf(q) > 0 =>
                 \A i \in 1..3 :
                     ColourOf(q)[i] =
                         Round(TrackColor[i] * MinAlpha.n
                                   + BaseOf(q)[i] * (MinAlpha.d - MinAlpha.n),
                               MinAlpha.d)

(***************************************************************************)
(* get_pts, the dispatch on the root element.                              *)
(***************************************************************************)
\* the document begins with the declaration and a start tag
WellBegun == doc.pre = "decl" /\ doc.form = "start"

\* what the parser named by the root returns for the body: the samples of
\* the records when the body is of its format, nothing when it is not
RoutedSamples(fmt) == IF doc.body = fmt THEN ValidSamples(doc) ELSE <<>>

\* C23: get_pts routes on the root element.  A document that begins with the
\* declaration and the start tag gpx gets the result of the GPX parser, one
\* with the start tag TrainingCenterDatabase the result of the TCX parser;
\* any other root, and any document whose first two events are not the
\* declaration and a start tag, returns an error with no samples and neither
\* parser reads its body (a body whose parse would panic does not panic).
C23_RootElementRouting ==
    Parsed =>
        /\ (~WellBegun \/ doc.root = "kml") => Result = Err
        /\ (WellBegun /\ doc.root = "gpx" /\ AllKindsIn(doc, ValidKinds))
              => Result = OkPts(RoutedSamples("gpx"))
        /\ (WellBegun /\ doc.root = "TrainingCenterDatabase"
                /\ AllKindsIn(doc, ValidKinds))
              => Result = OkPts(RoutedSamples("tcx"))

C23_Witness ==
    /\ Parsed /\ doc.pre = "decl" /\ doc.form = "start" /\ doc.root = "kml"
    /\ doc.body = "gpx" /\ doc.recs = <<"badlat">>
    /\ Result = Err

(***************************************************************************)
(* Records without a timestamp.                                            *)
(***************************************************************************)
\* records with a latitude and a longitude: complete ones, ones without a
\* time child, and the GPX trkpt written as a self-closing tag
LocatedKinds == {"full", "notime", "empty"}

\* C24: in both parsers a record with a latitude and a longitude and no
\* timestamp is kept, with time = None, whatever its form; so a document of
\* such records and complete records, parsed with no filters, returns one
\* sample for each record, in source order.  It fails for the GPX trkpt
\* written as a self-closing tag.
C24_UntimedRecordKept ==
    (Parsed /\ NoFilters /\ AllKindsIn(doc, LocatedKinds))
        => Result = OkPts(SamplesFrom(doc, LocatedKinds, 1))


(***************************************************************************)
(* Geodesy and the map projection.                                         *)
(***************************************************************************)
Projected == doc.fmt = "calculate_map"
\* the padded window of the call: its min and max are pixel_min and pixel_max
Window == padded_window(doc.pixels, doc.min, doc.max)
\* x * q for a quotient q
times(x, q) == quot(x * q.n, q.d)
\* the quotient q is the finite value v
equals(q, v) == q.d # 0 /\ q.n = v * q.d
\* the scale takes the window w to v pixels along both axes
spans(w, scale, v) ==
    /\ equals(times(w.max.lat - w.min.lat, scale.lat), v)
    /\ equals(times(w.max.lng - w.min.lng, scale.lng), v)

\* C25 as stated: for every bounding box, pixel size and scale_multiplier
\* calculate_map returns a scale with (pixel_max.lat - pixel_min.lat) *
\* scale.lat = pixel_size and (pixel_max.lng - pixel_min.lng) * scale.lng =
\* pixel_size, pixel_min and pixel_max being the padded window corners.
C25_ScaleSpansPixelSize ==
    Projected => spans(Window, Result.scale, doc.pixels)

\* C25 amended: for every bounding box that is not a single point, every
\* pixel size and scale_multiplier, (pixel_max.lat - pixel_min.lat) *
\* scale.lat and (pixel_max.lng - pixel_min.lng) * scale.lng are both
\* pixel_size * scale_multiplier.
C25_ScaleSpansScaledPixelSize ==
    (Projected /\ doc.min # doc.max) =>
        spans(Window, Result.scale, doc.pixels * doc.scale_multiplier)

\* a call as main makes it, 1280 pixels and a multiplier of 2, on a box with
\* extent in longitude only
C25_Witness ==
    /\ Projected
    /\ doc.pixels = 1280 /\ doc.scale_multiplier = 2
    /\ doc.min.lat = doc.max.lat /\ doc.min.lng < doc.max.lng
    /\ Result.scale.lat.n = 2560
    /\ Result.scale.lat.d < 0
    /\ Result.scale.lng.d > 0

\* C26: haversine(a, b) = haversine(b, a) for all pairs of coordinates, and
\* haversine(a, a) = 0.
C26_HaversineSymmetricAndZero ==
    doc.fmt = "haversine" =>
        /\ Result = haversine(doc.p2, doc.p1)
        /\ doc.p1 = doc.p2 => Result = 0

\* two coordinates of different latitude and longitude, a positive distance
\* apart
C26_Witness ==
    /\ doc.fmt = "haversine"
    /\ doc.p1.lat # doc.p2.lat /\ abs(doc.p1.lat) # abs(doc.p2.lat)
    /\ doc.p1.lng # doc.p2.lng
    /\ Result > 0


(***************************************************************************)
(* The normalization value.                                                *)
(***************************************************************************)
\* the counts above 1 of the table, ascending
Sorted == sorted_counts(factors)
\* the element at index len * 3 / 4, the division after the multiplication
ThreeQuarterElement == Sorted[(Len(Sorted) * 3) \div 4 + 1]
\* the alpha of pixel q when single_step is intensity_factor / v
AlphaAt(q, v) ==
    alpha_of(intensity_of(CountOf(q), [n |-> Unwrap(render_in).factor.n,
                                       d |-> Unwrap(render_in).factor.d * v]),
             MinAlpha)

\* C27: the normalization value is the element at index len * 3 / 4 of the
\* ascending counts above 1, for every len >= 1, and single_step is
\* intensity_factor over that value: every counted pixel of the returned
\* canvas is blended at the alpha that step gives it.
C27_StepFromThreeQuarterIndex ==
    (rphase = "done" /\ ~Stepped /\ Len(Sorted) >= 1) =>
        \A q \in Pixels :
            CountOf(q) > 0 =>
                ColourOf(q) = blend_pixel(Unwrap(render_in).track_color, BaseOf(q),
                                          AlphaAt(q, ThreeQuarterElement))

(***************************************************************************)
(* TCX elements out of place.                                              *)
(***************************************************************************)
TcxStrayKinds == {"outtrack", "outlap", "outact"}

\* C28: the TCX parser returns a parse error for a Trackpoint outside a
\* Track, a Track outside a Lap and a Lap outside an Activity; the element
\* is not silently ignored.
C28_TcxStrayElementIsError ==
    (Parsed /\ WellBegun /\ doc.root = "TrainingCenterDatabase" /\ doc.body = "tcx"
       /\ SomeKindIn(doc, TcxStrayKinds))
        => Result = Err


(***************************************************************************)
(* The box main hands to calculate_map.                                    *)
(***************************************************************************)
ZeroExtent(b) == b.min.lat = b.max.lat \/ b.min.lng = b.max.lng

\* C29: in every run calculate_map is never called with a box of zero
\* latitude extent or zero longitude extent, whether the box is the --box
\* override or the one min_max derives from the samples; such a run ends as
\* a failure before the call.
C29_NoProjectionOfZeroExtentBox ==
    Called("calculate_map") => (IsSome(box) /\ ~ZeroExtent(Unwrap(box)))


(***************************************************************************)
(* Filtering while reading and filtering afterwards.                       *)
(***************************************************************************)
\* the document read to its end with no filter: every point is read
ReadInFull(d) == get_pts(PartContents(d), None, None, None)

\* the declared type is the token of no kind in the filter
NotInFilter(fmt, type) ==
    /\ IsSome(type_filters)
    /\ IsSome(type)
    /\ \A i \in 1..Len(Unwrap(type_filters)) :
          KindToken(fmt, Unwrap(type_filters)[i]) # Unwrap(type)

\* the filter discards part k of d: a GPX document goes as a whole, on its
\* metadata time or on the type of any of its trk; a TCX Lap goes on the
\* Sport of its Activity or on its own StartTime
Discarded(d, k) ==
    IF d.fmt = "gpx"
    THEN HeaderOutOfWindow(d) \/ \E j \in 1..Len(d.parts) : NotInFilter("gpx", d.parts[j].type)
    ELSE NotInFilter("tcx", d.parts[k].type) \/ HeaderOutOfWindow(d.parts[k])

\* the part a sample comes from
PartOf(pt) == IF pt.center.lat > LatVal(2) THEN 2 ELSE 1

\* every point read, the filter applied afterwards
FilteredAfterwards(d) ==
    LET keep(pt) == ~Discarded(d, PartOf(pt))
        after(all) == IF all.kind # "Ok" THEN all ELSE OkPts(SelectSeq(all.pts, keep))
    IN  after(ReadInFull(d))

TokenOfSomeKind(d) ==
    \E i \in 1..Len(Unwrap(type_filters)) :
        KindToken(d.fmt, Unwrap(type_filters)[i]) = Unwrap(d.parts[1].type)

\* C31: under a filter of one or several kinds an activity is kept, all
\* its samples returned, exactly when its declared type is the token of
\* some kind in the filter, Bike, Run and Walk being "1", "9" and "10" in
\* GPX and "Biking", "Running" and "Other" in TCX; otherwise no sample of
\* it is returned.
C31_FilterKeepsExactlyItsKinds ==
    Parsed =>
        Result = IF TokenOfSomeKind(doc) THEN ReadInFull(doc) ELSE OkPts(<<>>)

\* the same of TCX documents alone
TcxFilterKeepsExactlyItsKinds ==
    (Parsed /\ doc.fmt = "tcx") =>
        Result = IF TokenOfSomeKind(doc) THEN ReadInFull(doc) ELSE OkPts(<<>>)


(***************************************************************************)
(* Directories.  stack[1] is the call on the path list, stack[2] the call  *)
(* on the entries of a directory of the list, stack[3] the call on the     *)
(* entries of a directory inside that directory.                           *)
(***************************************************************************)
\* C32: of a directory in the path list only the regular files that are its
\* direct entries are processed: a directory nested inside it is never
\* descended into, so no call ever runs on the entries of a nested
\* directory and none of its files contributes samples.
C32_NestedDirectoryNotEntered ==
    Len(stack) <= 2

\* an entry that is neither a regular file nor a directory, or a file that
\* cannot be read, adds nothing: every activity held by a call was parsed
\* from a file that gave samples
OnlyParsedFilesContribute ==
    \A i \in 1..Len(stack) : \A j \in 1..Len(stack[i].trk_pts) :
        \E k \in 1..Len(parsed_ok) : parsed_ok[k] = stack[i].trk_pts[j]


(***************************************************************************)
(* The line between two pixels.                                            *)
(***************************************************************************)
\* a line is due: a timestamp is missing or the two are within 5 seconds
LineDue == ~BothTimed \/ GapMs <= 5000

\* the line steps along x: |slope| <= 1, slope = dy / dx
MajorX ==
    /\ ThisPixel[1] # PrevPixel[1]
    /\ abs(ThisPixel[2] - PrevPixel[2]) <= abs(ThisPixel[1] - PrevPixel[1])

\* the coordinate of pixel q on the major axis
Major(q) == IF MajorX THEN q[1] ELSE q[2]

\* the major-axis coordinates strictly between the two pixels
StrictlyBetween ==
    {c \in 0..(Width + Height) :
        \/ Major(PrevPixel) < c /\ c < Major(ThisPixel)
        \/ Major(ThisPixel) < c /\ c < Major(PrevPixel)}

\* the pixels the iteration changed other than the pixel of the sample
LineAdded == Changed \ {ThisPixel}

\* C33: a line between the distinct pixels p of the previous sample and q of
\* this one steps along the major axis (x when |slope| <= 1, else y): for
\* every major-axis coordinate strictly between p and q exactly one pixel
\* of that coordinate gains exactly 1, which makes max(|dx|, |dy|) - 1
\* increments; p gains nothing and q gains the 1 of its own sample.
C33_LineStepsAlongMajorAxis ==
    (Plotted /\ HasPrev /\ ~SamePixel /\ LineDue)
        => /\ rphase = "drawing"
           /\ \A r \in Changed : CountOf(r) = count_at(Last.factors, r[1], r[2]) + 1
           /\ ThisPixel \in Changed
           /\ PrevPixel \notin Changed
           /\ \A r \in LineAdded : Major(r) \in StrictlyBetween
           /\ \A c \in StrictlyBetween :
                 Cardinality({r \in LineAdded : Major(r) = c}) = 1
           /\ Cardinality(LineAdded) = Distance(PrevPixel, ThisPixel) - 1

\* a line along y from (1, 1) to (2, 4): the pixels of rows 2 and 3
C33_Witness ==
    /\ Plotted /\ HasPrev /\ LineDue
    /\ PrevPixel = <<1, 1>> /\ ThisPixel = <<2, 4>>
    /\ ~MajorX
    /\ LineAdded = {<<1, 2>>, <<2, 3>>}
    /\ CountOf(<<2, 4>>) = count_at(Last.factors, 2, 4) + 1


(***************************************************************************)
(* The remembered pixel and time belong to one activity.                   *)
(***************************************************************************)
\* an activity begins: the loop over its samples has not run yet
ActivityBegins == rphase = "drawing" /\ ~Stepped

\* the sample of the last iteration is outside the frame
OutOfFrame ==
    /\ Stepped
    /\ \/ Last.x < 1 \/ Last.x > Width - 2
       \/ Last.y < 1 \/ Last.y > Height - 2

\* C34: the remembered pixel and time are per activity.  When an activity
\* begins nothing is remembered, whatever the activity before it left;
\* samples outside the frame leave it so; and the first plotted sample of
\* the activity, which finds nothing remembered, increments exactly its own
\* pixel: no line joins it to the last sample of the activity before,
\* whatever the timestamps.
C34_NoLineBetweenActivities ==
    /\ ActivityBegins => prev = NoPrev
    /\ (OutOfFrame /\ ~HasPrev) => prev = NoPrev
    /\ (Plotted /\ ~HasPrev)
          => /\ rphase = "drawing"
             /\ factors = OneMoreAt(ThisPixel)
             /\ prev = [x |-> Some(Last.x), y |-> Some(Last.y), time |-> Last.pt.time]

\* the second activity begins at pixel (1, 1), at 5 s, after a first
\* activity of one sample at pixel (4, 2): only the count of (1, 1) changes
C34_Witness ==
    /\ Plotted /\ ~HasPrev
    /\ nsamples = 2
    /\ count_at(Last.factors, 4, 2) = 1
    /\ ThisPixel = <<1, 1>>
    /\ Last.pt.time = Some(5000)
    /\ Changed = {<<1, 1>>}


(***************************************************************************)
(* Indices into the count table and the canvas.  An index beyond a Vec or  *)
(* an image panics.                                                        *)
(***************************************************************************)
\* C35: on every canvas, square or not, and for every track set, no sample
\* pixel and no line pixel is addressed outside the count table, and no
\* composited pixel outside the table or the canvas: no iteration of the
\* sample loop panics, and the lines after the loops panic for nothing but
\* the empty list of counts.
C35_RenderStaysInBounds ==
    /\ Stepped => rphase # "panic"
    /\ (~Stepped /\ rphase = "panic") => sorted_counts(factors) = <<>>

\* the same on the square canvas
SquareCanvasStaysInBounds ==
    Width = Height => C35_RenderStaysInBounds


(***************************************************************************)
(* The box min_max derives from the samples.                               *)
(***************************************************************************)
\* C36: whenever calculate_map is reached with the box min_max derived from
\* the samples, the box has min.lat <= max.lat and min.lng <= max.lng: the
\* initial values of the fold (min 90, 180; max -90, -180) have given way
\* to coordinates of samples, the TrackSet being non-empty with no empty
\* activity.
C36_DerivedBoxIsOrdered ==
    (Called("calculate_map") /\ Called("min_max"))
        => /\ Unwrap(box).min.lat <= Unwrap(box).max.lat
           /\ Unwrap(box).min.lng <= Unwrap(box).max.lng


(***************************************************************************)
(* The sample the time gap is measured against.  Earlier is the activity   *)
(* up to the sample before the last one.                                   *)
(***************************************************************************)
Earlier == SubSeq(track_set[1], 1, Len(track_set[1]) - 1)

\* the pixel of a sample
PixelOf(pt) ==
    <<project(pt.center.lng, Unwrap(render_in).map_info.min.lng,
              Unwrap(render_in).map_info.scale.lng),
      project(pt.center.lat, Unwrap(render_in).map_info.min.lat,
              Unwrap(render_in).map_info.scale.lat)>>

InFrame(pt) ==
    /\ PixelOf(pt)[1] >= 1 /\ PixelOf(pt)[1] <= Width - 2
    /\ PixelOf(pt)[2] >= 1 /\ PixelOf(pt)[2] <= Height - 2

\* the earlier samples inside the frame, and the most recent of them
EarlierInFrame == {i \in 1..Len(Earlier) : InFrame(Earlier[i])}
MostRecent == Earlier[CHOOSE i \in EarlierInFrame : \A j \in EarlierInFrame : j <= i]

\* C37: the time gap that decides on the line is measured against the most
\* recent sample inside the frame, not against the sample that last changed
\* the pixel: the time remembered before an iteration is the time of that
\* sample, also when it only repeated the pixel before it, and a sample on
\* another pixel within 5 seconds of it is joined to the remembered pixel by
\* a line, however long ago that pixel was counted.
C37_GapAgainstMostRecentSample ==
    (Plotted /\ track_set # <<>> /\ EarlierInFrame # {})
        => /\ Last.prev.time = MostRecent.time
           /\ PrevPixel = PixelOf(MostRecent)
           /\ (/\ ThisPixel # PixelOf(MostRecent)
               /\ abs(Unwrap(Last.pt.time) - Unwrap(MostRecent.time)) <= 5000)
                 => /\ rphase = "drawing"
                    /\ Cardinality(Changed) = Distance(PixelOf(MostRecent), ThisPixel)

\* a sample on pixel (1, 1) at 0 s, another on the same pixel at 6 s, then
\* one on pixel (4, 2) at 10 s: the line is drawn
C37_Witness ==
    /\ Plotted
    /\ track_set = <<<<At(1, 1, Some(0)), At(2, 2, Some(6000)), At(8, 4, Some(10000))>>>>
    /\ count_at(Last.factors, 1, 1) = 1
    /\ Changed = {<<2, 1>>, <<3, 2>>, <<4, 2>>}


(***************************************************************************)
(* Activities that do not declare what a filter tests.  A GPX document is  *)
(* filtered as a whole, a TCX document Activity by Activity and Lap by     *)
(* Lap.                                                                    *)
(***************************************************************************)
\* part k declares nothing that a supplied filter tests: no type under a
\* type filter, no start time under a start or end bound
Undeclared(d, k) ==
    /\ IsSome(type_filters) \/ WindowSet
    /\ IsSome(type_filters) => d.parts[k].type = None
    /\ WindowSet => (IF d.fmt = "gpx" THEN d.time = None ELSE d.parts[k].time = None)

\* no other trk of a GPX document declares a type that is not in the filter
NoOtherTypeOut(d) ==
    d.fmt = "gpx" => \A j \in 1..Len(d.parts) : ~NotInFilter("gpx", d.parts[j].type)

\* the samples of part k in a result
OfPart(r, k) ==
    LET here(pt) == PartOf(pt) = k IN SelectSeq(r.pts, here)

=============================================================================
